---- MODULE Spec2Model ----
(***************************************************************************)
(* A model of luxonis-train's model graph engine: config validation        *)
(* (ModelConfig.check_graph, check_unique_names), the lazy node build      *)
(* (LuxonisModel.__init__, _initiate_nodes), the forward pass with its     *)
(* liveness eviction and its attached modules (LuxonisModel.forward), the  *)
(* loss reducer (process_losses), the metrics (compute_metrics) and the    *)
(* checkpoint loader (load_checkpoint).                                    *)
(***************************************************************************)
EXTENDS Integers, Sequences, FiniteSets, TLC

VARIABLES
  cfg,             \* the model config as the caller wrote it: [nodes, outputs]
  outputs,         \* ModelConfig.outputs (rewritten by check_graph), then LuxonisModel.outputs
  pc,              \* where the program is
  err,             \* the exception that ended the program ("" while none)
  graph,           \* LuxonisModel.graph: node name -> list of predecessor names
  input_shapes,    \* LuxonisModel.input_shapes: input node name -> its loader inputs
  unprocessed,     \* traverse_graph: names not yet yielded, in order
  processed,       \* traverse_graph: names already yielded
  dummy_outputs,   \* _initiate_nodes: key -> dummy Packet
  initiated_nodes, \* _initiate_nodes: names of the constructed nodes, in order
  build_log,       \* every Node(...) construction: [node, inputs]
  computed,        \* forward: the computed cache, key -> Packet
  run_log,         \* forward: every node.run call of the pass: [node, inputs]
  outputs_dict,    \* forward: the returned outputs
  losses_dict,     \* process_losses: the caller's mapping node -> loss -> value
  loss_weights,    \* LuxonisModel.loss_weights: loss name -> weight
  final_loss,      \* process_losses: the totals returned so far, one per call
  step_output,     \* process_losses: the log mapping returned by the last call
  log_sub_losses,  \* cfg.trainer.log_sub_losses
  model_weights,   \* cfg.model.weights: the checkpoint path, or None
  checkpoint,      \* load_checkpoint: the artifact torch.load returns for the path
  state_dict,      \* LuxonisModel.state_dict(): parameter key -> live tensor
  warnings,        \* load_checkpoint: the warnings logged, in order
  attached,        \* cfg.model.losses, metrics and visualizers
  main_metric,     \* LuxonisModel.main_metric
  modules,         \* LuxonisModel.losses, metrics, train_metrics, visualizers
  metric_state,    \* (set, node, metric) -> updates accumulated since the reset
  call,            \* forward: labels and images given or not, and the flags
  losses,          \* forward: the losses of the pass, node -> loss -> value
  visualizations,  \* forward: the visualizations of the pass
  module_log,      \* forward: every run of an attached module, in order
  metric_results,  \* compute_metrics: the returned mapping
  metric_log,      \* compute_metrics: every compute() and reset(), in order
  export_outputs,  \* export_onnx: the outputs forward returns, in insertion order
  output_names,    \* cfg.exporter.output_names: <<the list>>, or NoNames for None
  kwargs,          \* export_onnx: the output_names among its kwargs, or NoNames
  output_order,    \* export_onnx: the sorted (node, slot, index) triples
  exported,        \* export_onnx: the tuple export_forward returns
  onnx_names,      \* export_onnx: the output_names handed to to_onnx
  export_result,   \* export_onnx: the returned list of names
  freezing,        \* node_cfg.freezing of each node that has one, by its place
  epochs,          \* cfg.trainer.epochs
  frozen_nodes,    \* __init__: frozen_nodes, then LuxonisModel.frozen_nodes
  use_rich_text,   \* cfg.use_rich_text
  trainer_callbacks, \* cfg.trainer.callbacks
  callbacks,       \* what configure_callbacks returned
  best_model_path, \* best_model_path of each ModelCheckpoint of the trainer
  is_mlflow,       \* cfg.tracker.is_mlflow
  upload_url,      \* cfg.exporter.upload_url
  export_log,      \* every Exporter(cfg).export(...) started: the cfg it saw
  hooks_run,       \* how many callbacks had their on_train_end called
  current_epoch,   \* LuxonisModel.current_epoch
  train_metrics_interval, \* cfg.trainer.train_metrics_interval
  training_step_outputs,  \* LuxonisModel.training_step_outputs
  validation_step_outputs, \* LuxonisModel.validation_step_outputs
  logged_images,   \* LuxonisModel._logged_images
  num_log_images,  \* cfg.trainer.num_log_images
  image_log,       \* every logger.log_image since the last evaluation epoch end
  stage,           \* the step forward runs for: "train", "val", "test", or ""
  batch_size,      \* the number of images of the batch of the step
  verbose,         \* cfg.trainer.verbose
  given_values,    \* the scale_values and mean_values an ExportConfig is given
  scale_values,    \* ExportConfig.scale_values
  mean_values      \* ExportConfig.mean_values

vars == <<cfg, outputs, pc, err, graph, input_shapes, unprocessed, processed,
          dummy_outputs, initiated_nodes, build_log, computed, run_log,
          outputs_dict, losses_dict, loss_weights, final_loss,
          step_output, log_sub_losses, model_weights, checkpoint,
          state_dict,
          warnings, attached, main_metric, modules, metric_state, call,
          losses, visualizations, module_log, metric_results, metric_log,
          export_outputs, output_names, kwargs, output_order, exported,
          onnx_names, export_result, freezing, epochs, frozen_nodes,
          use_rich_text, trainer_callbacks, callbacks, best_model_path,
          is_mlflow, upload_url, export_log, hooks_run, current_epoch,
          train_metrics_interval, training_step_outputs,
          validation_step_outputs, logged_images, num_log_images, image_log,
          stage, batch_size, verbose, given_values, scale_values,
          mean_values>>

graphVars == <<cfg, outputs, graph, input_shapes, unprocessed, processed,
               dummy_outputs, initiated_nodes, build_log, computed, run_log,
               outputs_dict>>

lossVars == <<losses_dict, loss_weights, final_loss, step_output,
              log_sub_losses>>

ckptVars == <<model_weights, checkpoint, state_dict, warnings>>

\* What forward hands to the attached modules, and what they return.
passVars == <<call, losses, visualizations, module_log>>

attVars == <<attached, main_metric, modules, metric_state, passVars,
             metric_results, metric_log>>

(***************************************************************************)
(* Bounds of the checked configurations.                                   *)
(***************************************************************************)
MaxNodes == 4

MaxPreds == 2

MaxOutputs == 2

MaxCfgNodes == 2

MaxLoss == 1

MaxWeight == 2

MaxCalls == 2

MaxKeys == 3

MaxShape == 2

MaxValue == 1

MaxModules == 2

MaxUpdates == 2

\* Node names in declaration order, and the registry type name of a node
\* that is declared with an alias.
Names == <<"A", "B", "C", "D", "E", "F">>

None == "None"

NodeNames(n) == {Names[i] : i \in 1..n}

\* The keys of the batch a loader supplies.
LoaderKeys == {"x", "y"}

Range(s) == {s[i] : i \in 1..Len(s)}

\* The sequences over S without repetition, of length at most k.
RECURSIVE ListsOver(_, _)
ListsOver(S, k) ==
  IF k = 0 THEN {<<>>}
  ELSE LET shorter == ListsOver(S, k - 1)
       IN shorter \cup UNION {{Append(l, x) : x \in S \ Range(l)} :
                                l \in {m \in shorter : Len(m) = k - 1}}

\* The sections of at most k entries, an entry written twice included.
SectionsOver(S, k) == UNION {[1..n -> S] : n \in 0..k}

\* The permutations of 1..n, as sequences.
Perms(n) == {p \in [1..n -> 1..n] : \A i, j \in 1..n : p[i] = p[j] => i = j}

Min(a, b) == IF a < b THEN a ELSE b

(***************************************************************************)
(* ModelNodeConfig and ModelConfig.                                        *)
(***************************************************************************)
ModelNodeConfig(name, alias, inputs, loader_inputs) ==
  [name |-> name, alias |-> alias, inputs |-> inputs,
   loader_inputs |-> loader_inputs]

\* `node.alias or node.name`
EffName(node) == IF node.alias # None THEN node.alias ELSE node.name

\* The acyclic predecessor lists over the first n names: along some order of
\* the nodes, each node lists only nodes that come before it.
RECURSIVE DagsAlong(_, _, _)
DagsAlong(n, order, k) ==
  IF k = 0 THEN {[i \in 1..n |-> <<>>]}
  ELSE {[g EXCEPT ![order[k]] = l] :
          g \in DagsAlong(n, order, k - 1),
          l \in ListsOver({Names[order[j]] : j \in 1..(k - 1)}, MaxPreds)}

Dags(n) == UNION {DagsAlong(n, order, n) : order \in Perms(n)}

\* The output lists a caller may write: none, or up to MaxOutputs node names.
OutputLists(n) == ListsOver(NodeNames(n), Min(MaxOutputs, n))

\* Configs whose graph is acyclic: every node under its own name, reading
\* the loader input "x".
DagConfigs ==
  UNION {{[nodes |-> [i \in 1..n |->
                        ModelNodeConfig(Names[i], None, g[i],
                                        IF g[i] = <<>> THEN <<"x">> ELSE <<>>)],
           outputs |-> o] : g \in Dags(n), o \in OutputLists(n)} :
         n \in 0..MaxNodes}

\* Configs of few nodes whose names, aliases, predecessors and loader inputs
\* are free: cycles, aliases and repeated names all occur.
FreeNodeConfigs(n) ==
  {ModelNodeConfig(name, alias, inputs, loader) :
     name \in NodeNames(n), alias \in NodeNames(n) \cup {None},
     inputs \in ListsOver(NodeNames(n), MaxPreds),
     loader \in {<<"x">>, <<"y", "x">>}}

FreeConfigs ==
  UNION {{[nodes |-> ns, outputs |-> o] :
            ns \in [1..n -> FreeNodeConfigs(n)], o \in OutputLists(n)} :
         n \in 0..MaxCfgNodes}

Configs == DagConfigs \cup FreeConfigs

(***************************************************************************)
(* Graph helpers of luxonis_train.utils.general.                           *)
(***************************************************************************)
\* The nodes reachable from the names in `frontier` along predecessor edges;
\* a name the graph does not hold has no predecessors.
RECURSIVE Reach(_, _, _)
Reach(g, frontier, seen) ==
  LET next == UNION {Range(g[n]) : n \in frontier \cap DOMAIN g} \ seen
  IN IF next = {} THEN seen ELSE Reach(g, next, seen \cup next)

\* is_acyclic(graph): no node is its own (transitive) predecessor.
is_acyclic(g) == \A n \in DOMAIN g : n \notin Reach(g, {n}, {})

\* traverse_graph: the next node it yields, the first unprocessed node, in
\* declaration order, all of whose predecessors were yielded already.
Ready(g, un, done) == {i \in 1..Len(un) : Range(g[un[i]]) \subseteq done}

TraverseNext(g, un, done) ==
  LET i == CHOOSE i \in Ready(g, un, done) : \A j \in Ready(g, un, done) : i <= j
  IN un[i]

\* The sequence s without its element x.
Remove(s, x) == SelectSeq(s, LAMBDA y : y # x)

(***************************************************************************)
(* ModelConfig validators.                                                 *)
(***************************************************************************)
\* The subsequence of s at the indices in I.
RECURSIVE SubSeqAt(_, _, _)
SubSeqAt(s, I, k) ==
  IF k > Len(s) THEN <<>>
  ELSE (IF k \in I THEN <<s[k]>> ELSE <<>>) \o SubSeqAt(s, I, k + 1)

\* {node.alias or node.name: node.inputs for node in nodes}: a later node
\* replaces an earlier one of the same name.
LastIndex(nodes, name) ==
  CHOOSE i \in 1..Len(nodes) :
    /\ EffName(nodes[i]) = name
    /\ \A j \in 1..Len(nodes) : EffName(nodes[j]) = name => j <= i

GraphOf(nodes) ==
  [name \in {EffName(nodes[i]) : i \in 1..Len(nodes)} |->
     nodes[LastIndex(nodes, name)].inputs]

\* DerivedOutputs, had it compared node.name and not `node.alias or node.name`.
DerivedOutputs_ByName(nodes) ==
  LET inputs == UNION {Range(nodes[i].inputs) : i \in 1..Len(nodes)}
      names == [i \in 1..Len(nodes) |-> EffName(nodes[i])]
  IN SubSeqAt(names, {i \in 1..Len(nodes) : nodes[i].name \notin inputs}, 1)

\* The nodes which are not inputs to any node, in declaration order.
DerivedOutputs(nodes) ==
  LET inputs == UNION {Range(nodes[i].inputs) : i \in 1..Len(nodes)}
      names == [i \in 1..Len(nodes) |-> EffName(nodes[i])]
  IN SubSeqAt(names, {i \in 1..Len(nodes) : names[i] \notin inputs}, 1)

\* CheckGraph, had it not tested the graph for cycles.
CheckGraph_NoCycleTest(nodes, outs) ==
  LET new == IF outs = <<>> THEN DerivedOutputs(nodes) ELSE outs
  IN IF Len(nodes) > 0 /\ new = <<>>
     THEN [raised |-> "ValueError: No outputs specified.", outputs |-> new]
     ELSE [raised |-> "", outputs |-> new]

\* check_graph's verdict on (nodes, outputs): the exception it raises, or
\* the output list it leaves in the config.
CheckGraph(nodes, outs) ==
  IF ~is_acyclic(GraphOf(nodes))
  THEN [raised |-> "ValueError: Model graph is not acyclic.", outputs |-> outs]
  ELSE LET new == IF outs = <<>> THEN DerivedOutputs(nodes) ELSE outs
       IN IF Len(nodes) > 0 /\ new = <<>>
          THEN [raised |-> "ValueError: No outputs specified.", outputs |-> new]
          ELSE [raised |-> "", outputs |-> new]

\* check_unique_names with the names compared as written, the aliases
\* left out.
HasDuplicateName_ByName(objects) ==
  \E i, j \in 1..Len(objects) : i < j /\ objects[i].name = objects[j].name

\* check_unique_names, for one section: `name in names` on a later entry.
HasDuplicateName(objects) ==
  \E i, j \in 1..Len(objects) : i < j /\ EffName(objects[i]) = EffName(objects[j])

(***************************************************************************)
(* Packets.  A tensor is known by the loader key it came from; the Packet   *)
(* a node returns is known by the node and the Packets it was run on.      *)
(***************************************************************************)
Tensor(i) == [by |-> i, ins |-> <<>>]

Features(tensors) == [by |-> "features", ins |-> tensors]

\* node.run(node_inputs)
NodeRun(node_name, node_inputs) == [by |-> node_name, ins |-> node_inputs]

\* f"__{node_name}_input__"
InputKey(node_name) ==
  CASE node_name = "A" -> "__A_input__"
    [] node_name = "B" -> "__B_input__"
    [] node_name = "C" -> "__C_input__"
    [] node_name = "D" -> "__D_input__"
    [] node_name = "E" -> "__E_input__"
    [] node_name = "F" -> "__F_input__"

\* The mapping d with d[key] = value.
Put(d, key, value) ==
  [k \in DOMAIN d \cup {key} |-> IF k = key THEN value ELSE d[k]]

Restrict(d, keys) == [k \in DOMAIN d \cap keys |-> d[k]]

EmptyDict == [k \in {} |-> <<>>]

(***************************************************************************)
(* LuxonisModel.__init__: the graph and the input shapes.                  *)
(***************************************************************************)
\* self.graph[node_name] = node_cfg.inputs, for every node config in turn.
ModelGraph(nodes) == GraphOf(nodes)

\* self.input_shapes[node_name] = [original_in_shape[i] for i in
\* loader_inputs], for every node config without inputs.
ModelInputShapes(nodes) ==
  LET inputNodes == {i \in 1..Len(nodes) : nodes[i].inputs = <<>>}
      last(name) == CHOOSE i \in inputNodes :
                      /\ EffName(nodes[i]) = name
                      /\ \A j \in inputNodes : EffName(nodes[j]) = name => j <= i
  IN [name \in {EffName(nodes[i]) : i \in inputNodes} |->
        nodes[last(name)].loader_inputs]

\* The keys of the `nodes` dict, in insertion order.
NodeOrder(nodes) ==
  LET names == [i \in 1..Len(nodes) |-> EffName(nodes[i])]
  IN SubSeqAt(names, {i \in 1..Len(nodes) :
                        \A j \in 1..(i - 1) : names[j] # names[i]}, 1)

\* Constructions, had the node been constructed inside the loop over its
\* input names: once per input, on the inputs gathered so far.
Constructions_InLoop(node_name, node_dummy_inputs) ==
  [k \in 1..Len(node_dummy_inputs) |->
     [node |-> node_name, inputs |-> SubSeq(node_dummy_inputs, 1, k)]]

\* _initiate_nodes: the constructions made for one node of the traversal,
\* one Node(...) call after the loop over its input names.
Constructions(node_name, node_dummy_inputs) ==
  <<[node |-> node_name, inputs |-> node_dummy_inputs]>>

(***************************************************************************)
(* LuxonisModel.forward: its pure parts.                                   *)
(***************************************************************************)
\* input_dict: for every node config whose name is an input node name, the
\* batch tensors at its loader inputs; keyed by node_cfg.name.
InputDict(nodes, input_node_name) ==
  LET hits == {i \in 1..Len(nodes) : nodes[i].name \in input_node_name}
      last(name) == CHOOSE i \in hits :
                      /\ nodes[i].name = name
                      /\ \A j \in hits : nodes[j].name = name => j <= i
  IN [name \in {nodes[i].name : i \in hits} |->
        [k \in 1..Len(nodes[last(name)].loader_inputs) |->
           Tensor(nodes[last(name)].loader_inputs[k])]]

\* computed, before the traversal: one input Packet per entry of input_dict.
InitialComputed(input_dict) ==
  [key \in {InputKey(name) : name \in DOMAIN input_dict} |->
     LET name == CHOOSE n \in DOMAIN input_dict : InputKey(n) = key
     IN Features(input_dict[name])]

\* The names a node is run on: its predecessors, or its own input key.
InputNames(node_name, input_names) ==
  IF input_names = <<>> THEN <<InputKey(node_name)>> ELSE input_names

\* Stays, had the scan not looked for unprocessed consumers.
Stays_NoConsumerCheck(computed_name, is_input_node, input_names, outs, g, un) ==
  \/ computed_name \in Range(outs)
  \/ is_input_node /\ computed_name \notin Range(input_names)

\* Stays, had the scan not spared the declared outputs.
Stays_OutputsEvicted(computed_name, is_input_node, input_names, outs, g, un) ==
  \/ is_input_node /\ computed_name \notin Range(input_names)
  \/ \E i \in 1..Len(un) : computed_name \in Range(g[un[i]])

\* The eviction scan's verdict on one cache entry: whether it stays.
Stays(computed_name, is_input_node, input_names, outs, g, un) ==
  \/ computed_name \in Range(outs)
  \/ is_input_node /\ computed_name \notin Range(input_names)
  \/ \E i \in 1..Len(un) : computed_name \in Range(g[un[i]])

\* outputs_dict: the cache entries of the declared outputs.
OutputsDict(cache, outs) == Restrict(cache, Range(outs))

exportVars == <<export_outputs, output_names, kwargs, output_order,
                exported, onnx_names, export_result, given_values,
                scale_values, mean_values>>

freezeVars == <<freezing, epochs, frozen_nodes>>

callbackVars == <<use_rich_text, trainer_callbacks, callbacks,
                  best_model_path, is_mlflow, upload_url, export_log,
                  hooks_run>>

epochVars == <<current_epoch, train_metrics_interval, training_step_outputs,
               validation_step_outputs, logged_images, num_log_images,
               image_log, stage, batch_size, verbose>>

\* What a training run adds to the model: export, callbacks, epochs.
runVars == <<exportVars, freezeVars, callbackVars, epochVars>>

(***************************************************************************)
(* LuxonisModel.export_onnx.  The outputs forward returns are a mapping    *)
(* node name -> Packet, a Packet a mapping slot name -> list of tensors;   *)
(* both are kept as the lists of their items, in insertion order.          *)
(***************************************************************************)
MaxTensors == 2

\* The slot names of the Packets.
SlotNames == <<"boxes", "features">>

\* Every name of the model, in the ascending order of str comparison.
Alphabet == Names \o SlotNames

StrIndex(x) == CHOOSE i \in 1..Len(Alphabet) : Alphabet[i] = x

\* Comparison of two (node_name, output_name, i) tuples.
TupleLess(a, b) ==
  \/ StrIndex(a[1]) < StrIndex(b[1])
  \/ /\ a[1] = b[1]
     /\ \/ StrIndex(a[2]) < StrIndex(b[2])
        \/ a[2] = b[2] /\ a[3] < b[3]

\* The tensor a node returns at an index of a slot.
OutTensor(node_name, output_name, i) ==
  [node |-> node_name, slot |-> output_name, index |-> i]

\* d[key], for a mapping kept as the list of its items.
Lookup(d, key) == d[CHOOSE k \in 1..Len(d) : d[k][1] = key][2]

RECURSIVE Concat(_)
Concat(ls) == IF ls = <<>> THEN <<>> ELSE Head(ls) \o Concat(Tail(ls))

\* The list comprehension of export_onnx: for every node, for every slot,
\* for i in range(len(out)).
OutputTriples(outs_by_node) ==
  Concat([n \in 1..Len(outs_by_node) |->
            Concat([k \in 1..Len(outs_by_node[n][2]) |->
                      [i \in 1..Len(outs_by_node[n][2][k][2]) |->
                         <<outs_by_node[n][1], outs_by_node[n][2][k][1],
                           i - 1>>]])])

RECURSIVE InsertSorted(_, _)
InsertSorted(acc, t) ==
  IF acc = <<>> THEN <<t>>
  ELSE IF TupleLess(t, Head(acc)) THEN <<t>> \o acc
  ELSE <<Head(acc)>> \o InsertSorted(Tail(acc), t)

\* The triples left in the order of the comprehension.
sorted_AsEnumerated(l) == l

\* sorted(...)
RECURSIVE sorted(_)
sorted(l) ==
  IF l = <<>> THEN <<>>
  ELSE InsertSorted(sorted(SubSeq(l, 1, Len(l) - 1)), l[Len(l)])

\* f"{node_name}/{output_name}/{i}"
DefaultOutputName(t) == <<t[1], "/", t[2], "/", t[3]>>

\* An optional list of names: <<the list>> when given, NoNames when None.
NoNames == <<>>

GivenList(names) == <<names>>

\* The given names taken whatever their number.
ChosenNames_NoCountTest(names, order) ==
  IF names = NoNames \/ names = GivenList(<<>>)
  THEN [k \in 1..Len(order) |-> DefaultOutputName(order[k])]
  ELSE names[1]

\* Lines 444-451: the names of the config are dropped when their number
\* differs from the number of outputs.
KeptNames(names, order) ==
  IF names # NoNames /\ Len(names[1]) # Len(order) THEN NoNames ELSE names

\* Lines 453-456: `self.cfg.exporter.output_names or [...]`.
ChosenNames(names, order) ==
  LET kept == KeptNames(names, order)
  IN IF kept = NoNames \/ kept = GivenList(<<>>)
     THEN [k \in 1..Len(order) |-> DefaultOutputName(order[k])]
     ELSE kept[1]

ExportOnnx(outs_by_node, names, kw) ==
  LET order == sorted(OutputTriples(outs_by_node))
      chosen == ChosenNames(names, order)
  IN [output_order |-> order,
      cfg_names |-> KeptNames(names, order),
      exported |-> [k \in 1..Len(order) |->
                      Lookup(Lookup(outs_by_node, order[k][1]),
                             order[k][2])[order[k][3] + 1]],
      onnx_names |-> IF kw = NoNames THEN chosen ELSE kw[1],
      returned |-> chosen]

\* Before any export.
\* A value of scale_values or mean_values: None, a float, or a list.
NoValues == [kind |-> "None", items |-> <<>>]

FloatValue(v) == [kind |-> "float", items |-> <<v>>]

ListValues(items) == [kind |-> "list", items |-> items]

\* pad_values of ExportConfig.check_values: a call that reaches the end of
\* the function returns None.
pad_values(values) ==
  IF values.kind = "None" THEN NoValues
  ELSE IF values.kind = "float"
  THEN ListValues(<<values.items[1], values.items[1], values.items[1]>>)
  ELSE NoValues

\* An ExportConfig with the defaults of both fields.
InitNoValues ==
  /\ given_values = [scale_values |-> NoValues, mean_values |-> NoValues]
  /\ scale_values = NoValues
  /\ mean_values = NoValues

InitNoExport ==
  /\ InitNoValues
  /\ export_outputs = <<>>
  /\ output_names = NoNames
  /\ kwargs = NoNames
  /\ output_order = <<>>
  /\ exported = <<>>
  /\ onnx_names = <<>>
  /\ export_result = <<>>

(***************************************************************************)
(* The frozen-node schedule of __init__.  unfreeze_after is None, an int   *)
(* or a float; a float is kept as the quotient num/den.                    *)
(***************************************************************************)
MaxEpochs == 3

MaxUnfreeze == 2

FractionDen == 2

NoEpoch == [kind |-> "None", num |-> 0, den |-> 1]

IntEpoch(k) == [kind |-> "int", num |-> k, den |-> 1]

FloatEpoch(num, den) == [kind |-> "float", num |-> num, den |-> den]

FreezingConfig(active, unfreeze_after) ==
  [active |-> active, unfreeze_after |-> unfreeze_after]

\* node_cfg.freezing: FreezingConfig() unless the config gives one.
FreezingOf(frz, i) ==
  IF i \in DOMAIN frz THEN frz[i] ELSE FreezingConfig(FALSE, NoEpoch)

\* int(num / den): the quotient cut toward zero.
IntOf(num, den) == IF num >= 0 THEN num \div den ELSE -((-num) \div den)

\* The float taken as a number of epochs, like the int.
UnfreezeAfter_FloatAsEpochs(unfreeze_after, ep) ==
  CASE unfreeze_after.kind = "None" -> ep
    [] unfreeze_after.kind = "int" -> unfreeze_after.num
    [] unfreeze_after.kind = "float" ->
         IntOf(unfreeze_after.num, unfreeze_after.den)

\* Lines 147-154.
UnfreezeAfter(unfreeze_after, ep) ==
  CASE unfreeze_after.kind = "None" -> ep
    [] unfreeze_after.kind = "int" -> unfreeze_after.num
    [] unfreeze_after.kind = "float" ->
         IntOf(unfreeze_after.num * ep, unfreeze_after.den)

\* Lines 139-155: one (node_name, unfreeze_after) for every node_cfg whose
\* freezing is active, in the order of the config.
FrozenNodes(nodes, frz, ep) ==
  LET active == SelectSeq([i \in 1..Len(nodes) |-> i],
                          LAMBDA i : FreezingOf(frz, i).active)
  IN [k \in 1..Len(active) |->
        <<EffName(nodes[active[k]]),
          UnfreezeAfter(FreezingOf(frz, active[k]).unfreeze_after, ep)>>]

InitNoFreezing ==
  /\ freezing = <<>>
  /\ epochs = MaxEpochs
  /\ frozen_nodes = <<>>

(***************************************************************************)
(* LuxonisModel.configure_callbacks.                                       *)
(***************************************************************************)
ModelCheckpoint(monitor, dirpath, mode) ==
  [type |-> "ModelCheckpoint", monitor |-> monitor, dirpath |-> dirpath,
   mode |-> mode, upload_to_mlflow |-> FALSE]

\* A callback that is no ModelCheckpoint.
Callback(type, upload_to_mlflow) ==
  [type |-> type, monitor |-> <<>>, dirpath |-> "", mode |-> "",
   upload_to_mlflow |-> upload_to_mlflow]

\* CallbackConfig; of its params, upload_to_mlflow.
CallbackConfig(name, active, upload_to_mlflow) ==
  [name |-> name, active |-> active, upload_to_mlflow |-> upload_to_mlflow]

\* The second ModelCheckpoint added whatever main_metric is.
MetricCheckpoint_Always(main) ==
  <<ModelCheckpoint(<<"val/metric/", main>>, "best_val_metric", "max")>>

\* Lines 688-700.
MetricCheckpoint(main) ==
  IF main # None
  THEN <<ModelCheckpoint(<<"val/metric/", main>>, "best_val_metric", "max")>>
  ELSE <<>>

\* Lines 708-710: every callback of the config added, active or not.
ConfigCallbacks_InactiveToo(cbs) ==
  [k \in 1..Len(cbs) |-> Callback(cbs[k].name, cbs[k].upload_to_mlflow)]

\* Lines 708-710.
ConfigCallbacks(cbs) ==
  LET active == SelectSeq(cbs, LAMBDA c : c.active)
  IN [k \in 1..Len(active) |->
        Callback(active[k].name, active[k].upload_to_mlflow)]

ConfigureCallbacks(main, frozen, rich, cbs) ==
  <<ModelCheckpoint(<<"val/loss">>, "min_val_loss", "min")>>
    \o MetricCheckpoint(main)
    \o (IF frozen # <<>> THEN <<Callback("ModuleFreezer", FALSE)>> ELSE <<>>)
    \o (IF rich THEN <<Callback("RichModelSummary", FALSE)>> ELSE <<>>)
    \o ConfigCallbacks(cbs)

\* The ModelCheckpoint callbacks of a list, in its order.
CheckpointCallbacks(cbs) ==
  SelectSeq(cbs, LAMBDA c : c.type = "ModelCheckpoint")

InitNoCallbacks ==
  /\ use_rich_text = FALSE
  /\ trainer_callbacks = <<>>
  /\ callbacks = <<>>
  /\ best_model_path = <<>>
  /\ is_mlflow = FALSE
  /\ upload_url = None
  /\ export_log = <<>>
  /\ hooks_run = 0

\* The model as __init__ leaves it (lines 131-138); the defaults of the
\* trainer config.
InitNoEpochs ==
  /\ current_epoch = 0
  /\ train_metrics_interval = -1
  /\ training_step_outputs = <<>>
  /\ validation_step_outputs = <<>>
  /\ logged_images = 0
  /\ num_log_images = 0
  /\ image_log = <<>>
  /\ stage = ""
  /\ batch_size = 0
  /\ verbose = FALSE

InitNoRun ==
  InitNoExport /\ InitNoFreezing /\ InitNoCallbacks /\ InitNoEpochs

(***************************************************************************)
(* Attached modules: the losses, metrics and visualizers of the config,    *)
(* each bound to one node, and their construction in __init__.             *)
(***************************************************************************)
LossModuleConfig(name, alias, attached_to, weight) ==
  [name |-> name, alias |-> alias, attached_to |-> attached_to,
   weight |-> weight]

MetricModuleConfig(name, alias, attached_to, is_main_metric) ==
  [name |-> name, alias |-> alias, attached_to |-> attached_to,
   is_main_metric |-> is_main_metric]

AttachedModuleConfig(name, alias, attached_to) ==
  [name |-> name, alias |-> alias, attached_to |-> attached_to]

\* The storage of a kind of module: node name -> the names of its modules.
NoModules == [n \in {} |-> <<>>]

\* _init_attached_module: the module is built on its node and stored under
\* the node's name and its own.
InitAttachedModule(storage, module_cfg, node_names) ==
  LET module_name == EffName(module_cfg)
      node_name == module_cfg.attached_to
  IN IF node_name \notin node_names
     THEN [raised |-> "KeyError: nodes", storage |-> storage]
     ELSE [raised |-> "",
           storage |->
             IF node_name \notin DOMAIN storage
             THEN Put(storage, node_name, <<module_name>>)
             ELSE IF module_name \in Range(storage[node_name]) THEN storage
             ELSE Put(storage, node_name,
                      Append(storage[node_name], module_name))]

\* A loop of __init__ over the modules of one section.
RECURSIVE InitAttachedModules(_, _, _)
InitAttachedModules(storage, module_cfgs, node_names) ==
  IF module_cfgs = <<>> THEN [raised |-> "", storage |-> storage]
  ELSE LET r == InitAttachedModule(storage, Head(module_cfgs), node_names)
       IN IF r.raised # "" THEN r
          ELSE InitAttachedModules(r.storage, Tail(module_cfgs), node_names)

\* `self.loss_weights[loss_name] = loss_cfg.weight`, for every loss.
RECURSIVE LossWeights(_, _)
LossWeights(weights, loss_cfgs) ==
  IF loss_cfgs = <<>> THEN weights
  ELSE LossWeights(Put(weights, EffName(Head(loss_cfgs)),
                       Head(loss_cfgs).weight),
                   Tail(loss_cfgs))

\* f"{node_name}/{metric_name}"
MainMetricName(node_name, metric_name) == <<node_name, "/", metric_name>>

MultipleMainMetrics ==
  "ValueError: Multiple main metrics defined. Only one is allowed."

RECURSIVE InitMetrics_LastMainWins(_, _, _, _)
InitMetrics_LastMainWins(storage, main, metric_cfgs, node_names) ==
  IF metric_cfgs = <<>>
  THEN [raised |-> "", storage |-> storage, main_metric |-> main]
  ELSE LET metric_cfg == Head(metric_cfgs)
           r == InitAttachedModule(storage, metric_cfg, node_names)
       IN IF r.raised # ""
          THEN [raised |-> r.raised, storage |-> storage, main_metric |-> main]
          ELSE InitMetrics_LastMainWins(
                 r.storage,
                 IF metric_cfg.is_main_metric
                 THEN MainMetricName(metric_cfg.attached_to,
                                     EffName(metric_cfg))
                 ELSE main,
                 Tail(metric_cfgs), node_names)

\* The loop of __init__ over the metrics: each is attached, and the one
\* flagged is_main_metric names the main metric; a second one is an error.
RECURSIVE InitMetrics(_, _, _, _)
InitMetrics(storage, main, metric_cfgs, node_names) ==
  IF metric_cfgs = <<>>
  THEN [raised |-> "", storage |-> storage, main_metric |-> main]
  ELSE LET metric_cfg == Head(metric_cfgs)
           r == InitAttachedModule(storage, metric_cfg, node_names)
       IN IF r.raised # ""
          THEN [raised |-> r.raised, storage |-> storage, main_metric |-> main]
          ELSE IF metric_cfg.is_main_metric /\ main # None
          THEN [raised |-> MultipleMainMetrics, storage |-> r.storage,
                main_metric |-> main]
          ELSE InitMetrics(
                 r.storage,
                 IF metric_cfg.is_main_metric
                 THEN MainMetricName(metric_cfg.attached_to,
                                     EffName(metric_cfg))
                 ELSE main,
                 Tail(metric_cfgs), node_names)

\* The part of __init__ that follows _initiate_nodes: the exception raised
\* ("" if none), the four storages, the loss weights and the main metric.
InitAttached(att, node_names) ==
  LET l == InitAttachedModules(NoModules, att.losses, node_names)
      m == InitMetrics(NoModules, None, att.metrics, node_names)
      t == InitAttachedModules(NoModules, att.metrics, node_names)
      v == InitAttachedModules(NoModules, att.visualizers, node_names)
      raised == IF l.raised # "" THEN l.raised
                ELSE IF m.raised # "" THEN m.raised
                ELSE v.raised
  IN [raised |-> raised,
      losses |-> l.storage,
      loss_weights |-> IF l.raised # "" THEN EmptyDict
                       ELSE LossWeights(EmptyDict, att.losses),
      metrics |-> m.storage,
      train_metrics |-> t.storage,
      visualizers |-> v.storage,
      main_metric |-> m.main_metric]

\* No module is attached.
NoAttached == [losses |-> <<>>, metrics |-> <<>>, visualizers |-> <<>>]

NoStorages ==
  [losses |-> NoModules, metrics |-> NoModules, train_metrics |-> NoModules,
   visualizers |-> NoModules]

\* The arguments of forward other than the inputs: whether labels and
\* images are given, and the four flags.
ForwardCall(labels, images, compute_loss, compute_metrics, compute_visualizations, use_train_metrics) ==
  [labels |-> labels, images |-> images, compute_loss |-> compute_loss,
   compute_metrics |-> compute_metrics,
   compute_visualizations |-> compute_visualizations,
   use_train_metrics |-> use_train_metrics]

\* forward(inputs): the defaults of the other arguments.
DefaultCall == ForwardCall(FALSE, FALSE, TRUE, FALSE, FALSE, FALSE)

\* The calls of forward that are checked: every combination of arguments;
\* without attached modules the arguments have no effect, and the default
\* call stands for all.
ForwardCalls(att) ==
  IF att = NoAttached THEN {DefaultCall}
  ELSE {ForwardCall(l, i, cl, cm, cv, ut) :
          l \in BOOLEAN, i \in BOOLEAN, cl \in BOOLEAN, cm \in BOOLEAN,
          cv \in BOOLEAN, ut \in BOOLEAN}

\* One set of metric instances, used whatever use_train_metrics is.
MetricSet_Shared(use_train_metrics) == "metrics"

\* `METRICS = self.train_metrics if use_train_metrics else self.metrics`
MetricSet(use_train_metrics) ==
  IF use_train_metrics THEN "train_metrics" ELSE "metrics"

SelectedMetrics(mods, use_train_metrics) ==
  IF use_train_metrics THEN mods.train_metrics ELSE mods.metrics

LossesRun_NoLabelsTest(c, mods, node_name) ==
  c.compute_loss /\ node_name \in DOMAIN mods.losses

\* `if compute_loss and node_name in self.losses and labels is not None`
LossesRun(c, mods, node_name) ==
  c.compute_loss /\ node_name \in DOMAIN mods.losses /\ c.labels

\* `if compute_metrics and node_name in METRICS and labels is not None`
MetricsRun(c, mods, node_name) ==
  /\ c.compute_metrics
  /\ node_name \in DOMAIN SelectedMetrics(mods, c.use_train_metrics)
  /\ c.labels

\* `if compute_visualizations and node_name in self.visualizers and images
\* is not None and labels is not None`
VisualizersRun(c, mods, node_name) ==
  /\ c.compute_visualizations
  /\ node_name \in DOMAIN mods.visualizers
  /\ c.images
  /\ c.labels

\* A run of an attached module on the Packet of its node.
ModuleRun(kind, node_name, module_name, outs) ==
  [kind |-> kind, node |-> node_name, module |-> module_name, on |-> outs]

\* The runs of the modules `names` of a node, in order.
ModuleRuns(kind, node_name, names, outs) ==
  [i \in 1..Len(names) |-> ModuleRun(kind, node_name, names[i], outs)]

\* The results of the modules `names` of a node, by module name.
ModuleResults(kind, node_name, names, outs) ==
  [m \in Range(names) |-> ModuleRun(kind, node_name, m, outs)]

\* metric.run_update(outputs, labels), for every metric of the node in the
\* selected set.
MetricUpdate(state, set, node_name) ==
  [k \in DOMAIN state |->
     IF k[1] = set /\ k[2] = node_name THEN state[k] + 1 ELSE state[k]]

\* The accumulators of the constructed metrics, all empty.
NewMetricState(mods) ==
  [k \in UNION {{<<"metrics", n, m>> : m \in Range(mods.metrics[n])} :
                   n \in DOMAIN mods.metrics}
         \cup UNION {{<<"train_metrics", n, m>> :
                        m \in Range(mods.train_metrics[n])} :
                      n \in DOMAIN mods.train_metrics}
     |-> 0]

(***************************************************************************)
(* The program: a config is validated, the model is constructed from it    *)
(* (its nodes built lazily along the graph), and forward passes run.       *)
(***************************************************************************)
Raise(e) == pc' = "raised" /\ err' = e

InitGraph ==
  /\ outputs = cfg.outputs
  /\ pc = "check_graph"
  /\ err = ""
  /\ graph = EmptyDict
  /\ input_shapes = EmptyDict
  /\ unprocessed = <<>>
  /\ processed = {}
  /\ dummy_outputs = EmptyDict
  /\ initiated_nodes = <<>>
  /\ build_log = <<>>
  /\ computed = EmptyDict
  /\ run_log = <<>>
  /\ outputs_dict = EmptyDict

\* ModelConfig.check_graph
check_graph ==
  /\ pc = "check_graph"
  /\ LET r == CheckGraph(cfg.nodes, outputs)
     IN /\ outputs' = r.outputs
        /\ IF r.raised # "" THEN Raise(r.raised)
           ELSE pc' = "check_unique_names" /\ err' = err
  /\ UNCHANGED <<cfg, graph, input_shapes, unprocessed, processed,
                 dummy_outputs, initiated_nodes, build_log, computed, run_log,
                 outputs_dict>>
  /\ UNCHANGED <<lossVars, ckptVars, attVars>>
  /\ UNCHANGED runVars

\* ModelConfig.check_unique_names
check_unique_names ==
  /\ pc = "check_unique_names"
  /\ IF HasDuplicateName(cfg.nodes)
     THEN Raise("ValueError: Duplicate name in nodes section.")
     ELSE IF HasDuplicateName(attached.losses)
     THEN Raise("ValueError: Duplicate name in losses section.")
     ELSE IF HasDuplicateName(attached.metrics)
     THEN Raise("ValueError: Duplicate name in metrics section.")
     ELSE IF HasDuplicateName(attached.visualizers)
     THEN Raise("ValueError: Duplicate name in visualizers section.")
     ELSE pc' = "init" /\ err' = err
  /\ UNCHANGED <<cfg, outputs, graph, input_shapes, unprocessed, processed,
                 dummy_outputs, initiated_nodes, build_log, computed, run_log,
                 outputs_dict>>
  /\ UNCHANGED <<lossVars, ckptVars, attVars>>
  /\ UNCHANGED runVars

\* LuxonisModel.__init__ up to the traversal of _initiate_nodes: the graph,
\* the input shapes and the dummy input Packets.
init ==
  /\ pc = "init"
  /\ graph' = ModelGraph(cfg.nodes)
  /\ input_shapes' = ModelInputShapes(cfg.nodes)
  /\ dummy_outputs' =
       [key \in {InputKey(n) : n \in DOMAIN input_shapes'} |->
          LET n == CHOOSE m \in DOMAIN input_shapes' : InputKey(m) = key
          IN Features([k \in 1..Len(input_shapes'[n]) |->
                         Tensor(input_shapes'[n][k])])]
  /\ unprocessed' = NodeOrder(cfg.nodes)
  /\ processed' = {}
  /\ frozen_nodes' = FrozenNodes(cfg.nodes, freezing, epochs)
  /\ pc' = "initiate_nodes"
  /\ UNCHANGED <<cfg, outputs, err, initiated_nodes, build_log, computed,
                 run_log, outputs_dict>>
  /\ UNCHANGED <<lossVars, ckptVars, attVars>>
  /\ UNCHANGED <<exportVars, freezing, epochs, callbackVars, epochVars>>

\* One round of the loop of _initiate_nodes: the next node of the traversal
\* is constructed on the shapes of its inputs' dummy Packets and run on them.
initiate_node ==
  /\ pc = "initiate_nodes"
  /\ Ready(graph, unprocessed, processed) # {}
  /\ LET node_name == TraverseNext(graph, unprocessed, processed)
         node_input_names == InputNames(node_name, graph[node_name])
     IN /\ unprocessed' = Remove(unprocessed, node_name)
        /\ processed' = processed \cup {node_name}
        /\ IF Range(node_input_names) \subseteq DOMAIN dummy_outputs
           THEN LET node_dummy_inputs ==
                      [k \in 1..Len(node_input_names) |->
                         dummy_outputs[node_input_names[k]]]
                IN /\ build_log' =
                        build_log \o Constructions(node_name,
                                                   node_dummy_inputs)
                   /\ dummy_outputs' =
                        Put(dummy_outputs, node_name,
                            NodeRun(node_name, node_dummy_inputs))
                   /\ initiated_nodes' =
                        IF node_name \in Range(initiated_nodes)
                        THEN initiated_nodes
                        ELSE Append(initiated_nodes, node_name)
                   /\ UNCHANGED <<pc, err>>
           ELSE /\ Raise("KeyError: dummy_outputs")
                /\ UNCHANGED <<build_log, dummy_outputs, initiated_nodes>>
  /\ UNCHANGED <<cfg, outputs, graph, input_shapes, computed, run_log,
                 outputs_dict>>
  /\ UNCHANGED <<lossVars, ckptVars, attVars>>
  /\ UNCHANGED runVars

\* _initiate_nodes returns the constructed nodes; __init__ goes on to the
\* attached modules.
initiate_done ==
  /\ pc = "initiate_nodes"
  /\ unprocessed = <<>>
  /\ pc' = "init_attached"
  /\ UNCHANGED <<cfg, outputs, err, graph, input_shapes, unprocessed,
                 processed, dummy_outputs, initiated_nodes, build_log,
                 computed, run_log, outputs_dict>>
  /\ UNCHANGED <<lossVars, ckptVars, attVars>>
  /\ UNCHANGED runVars

\* __init__ after _initiate_nodes: the losses with their weights, the
\* metrics with the main metric, the train metrics and the visualizers are
\* attached to their nodes.
init_attached ==
  /\ pc = "init_attached"
  /\ LET r == InitAttached(attached, Range(initiated_nodes))
     IN /\ modules' = [losses |-> r.losses, metrics |-> r.metrics,
                       train_metrics |-> r.train_metrics,
                       visualizers |-> r.visualizers]
        /\ loss_weights' = r.loss_weights
        /\ main_metric' = r.main_metric
        /\ metric_state' = NewMetricState(modules')
        /\ IF r.raised # "" THEN Raise(r.raised)
           ELSE pc' = "load_checkpoint" /\ err' = err
  /\ UNCHANGED <<losses_dict, final_loss, step_output, log_sub_losses>>
  /\ UNCHANGED <<attached, passVars, metric_results, metric_log>>
  /\ UNCHANGED <<graphVars, ckptVars>>
  /\ UNCHANGED runVars

\* forward, up to its traversal: the input Packets enter the cache.
forward_begin ==
  /\ pc = "ready"
  /\ \A k \in DOMAIN metric_state : metric_state[k] < MaxUpdates
  /\ call' \in ForwardCalls(attached)
  /\ losses' = EmptyDict
  /\ visualizations' = EmptyDict
  /\ module_log' = <<>>
  /\ computed' = InitialComputed(InputDict(cfg.nodes, DOMAIN input_shapes))
  /\ run_log' = <<>>
  /\ outputs_dict' = EmptyDict
  /\ unprocessed' = NodeOrder(cfg.nodes)
  /\ processed' = {}
  /\ pc' = "forward"
  /\ UNCHANGED <<cfg, outputs, err, graph, input_shapes, dummy_outputs,
                 initiated_nodes, build_log>>
  /\ UNCHANGED <<attached, main_metric, modules, metric_state,
                 metric_results, metric_log>>
  /\ UNCHANGED <<lossVars, ckptVars>>
  /\ UNCHANGED runVars

\* One round of forward's loop: the next node of the traversal is run on the
\* cached Packets of its inputs, its Packet is cached, and the cache is
\* scanned for entries to evict.
forward_node ==
  /\ pc = "forward"
  /\ Ready(graph, unprocessed, processed) # {}
  /\ LET node_name == TraverseNext(graph, unprocessed, processed)
         un == Remove(unprocessed, node_name)
         is_input_node == graph[node_name] = <<>>
         input_names == InputNames(node_name, graph[node_name])
     IN /\ unprocessed' = un
        /\ processed' = processed \cup {node_name}
        /\ IF Range(input_names) \subseteq DOMAIN computed
           THEN LET node_inputs == [k \in 1..Len(input_names) |->
                                      computed[input_names[k]]]
                    cache == Put(computed, node_name,
                                 NodeRun(node_name, node_inputs))
                    outs == NodeRun(node_name, node_inputs)
                    loss_names ==
                      IF LossesRun(call, modules, node_name)
                      THEN modules.losses[node_name] ELSE <<>>
                    metric_names ==
                      IF MetricsRun(call, modules, node_name)
                      THEN SelectedMetrics(modules,
                                           call.use_train_metrics)[node_name]
                      ELSE <<>>
                    viz_names ==
                      IF VisualizersRun(call, modules, node_name)
                      THEN modules.visualizers[node_name] ELSE <<>>
                IN /\ run_log' = Append(run_log, [node |-> node_name,
                                                  inputs |-> node_inputs])
                   /\ losses' =
                        IF LossesRun(call, modules, node_name)
                        THEN Put(losses, node_name,
                                 ModuleResults("loss", node_name, loss_names,
                                               outs))
                        ELSE losses
                   /\ metric_state' =
                        IF MetricsRun(call, modules, node_name)
                        THEN MetricUpdate(metric_state,
                                          MetricSet(call.use_train_metrics),
                                          node_name)
                        ELSE metric_state
                   /\ visualizations' =
                        IF VisualizersRun(call, modules, node_name)
                        THEN Put(visualizations, node_name,
                                 ModuleResults("visualizer", node_name,
                                               viz_names, outs))
                        ELSE visualizations
                   /\ module_log' =
                        module_log
                          \o ModuleRuns("loss", node_name, loss_names, outs)
                          \o ModuleRuns("metric", node_name, metric_names,
                                        outs)
                          \o ModuleRuns("visualizer", node_name, viz_names,
                                        outs)
                   /\ computed' =
                        Restrict(cache,
                                 {k \in DOMAIN cache :
                                    Stays(k, is_input_node, input_names,
                                          outputs, graph, un)})
                   /\ UNCHANGED <<pc, err>>
           ELSE /\ Raise("KeyError: computed")
                /\ UNCHANGED <<run_log, computed, losses, metric_state,
                               visualizations, module_log>>
  /\ UNCHANGED <<cfg, outputs, graph, input_shapes, dummy_outputs,
                 initiated_nodes, build_log, outputs_dict>>
  /\ UNCHANGED <<attached, main_metric, modules, call, metric_results,
                 metric_log>>
  /\ UNCHANGED <<lossVars, ckptVars>>
  /\ UNCHANGED runVars

\* forward returns the cache entries of the declared outputs.
forward_return ==
  /\ pc = "forward"
  /\ unprocessed = <<>>
  /\ outputs_dict' = OutputsDict(computed, outputs)
  /\ pc' = "returned"
  /\ UNCHANGED <<cfg, outputs, err, graph, input_shapes, unprocessed,
                 processed, dummy_outputs, initiated_nodes, build_log,
                 computed, run_log>>
  /\ UNCHANGED <<lossVars, ckptVars, attVars>>
  /\ UNCHANGED runVars

\* The caller takes the result; the model is ready for the next batch.
next_batch ==
  /\ pc = "returned"
  /\ pc' = "ready"
  /\ UNCHANGED <<cfg, outputs, err, graph, input_shapes, unprocessed,
                 processed, dummy_outputs, initiated_nodes, build_log,
                 computed, run_log, outputs_dict>>
  /\ call' = DefaultCall
  /\ losses' = EmptyDict
  /\ visualizations' = EmptyDict
  /\ module_log' = <<>>
  /\ UNCHANGED <<attached, main_metric, modules, metric_state,
                 metric_results, metric_log>>
  /\ UNCHANGED <<lossVars, ckptVars>>
  /\ UNCHANGED runVars

(***************************************************************************)
(* LuxonisModel.compute_metrics.  What a metric's compute() returns is     *)
(* known by its shape: a tensor, a pair of a tensor and a submetric        *)
(* mapping, a submetric mapping, or anything else.                         *)
(***************************************************************************)
MetricResult(shape, value, submetrics) ==
  [shape |-> shape, value |-> value, submetrics |-> submetrics]

\* The results a compute() is checked with; a submetric may bear the name
\* of a metric.
ComputeResults ==
  {MetricResult("tensor", 1, EmptyDict),
   MetricResult("pair", 1, [k \in {"s"} |-> 2]),
   MetricResult("pair", 1, [k \in {"M1"} |-> 2]),
   MetricResult("dict", 0, [k \in {"s", "M2"} |-> 3]),
   MetricResult("other", 1, EmptyDict)}

\* `a | b` on dicts: the entries of b, and those of a under other keys.
MergeDict(a, b) ==
  [k \in DOMAIN a \cup DOMAIN b |-> IF k \in DOMAIN b THEN b[k] ELSE a[k]]

UnexpectedValue == "ValueError: Metric returned unexpected value."

\* An entry of the log of compute_metrics: metric.compute() with what it
\* returned, or metric.reset().
Computed(node_name, metric_name, result) ==
  [op |-> "compute", node |-> node_name, metric |-> metric_name,
   result |-> result]

WasReset(node_name, metric_name) ==
  [op |-> "reset", node |-> node_name, metric |-> metric_name,
   result |-> MetricResult("none", 0, EmptyDict)]

Normalize_PairDropsSubmetrics(metric_name, result) ==
  IF result.shape \in {"pair", "tensor"}
  THEN [k \in {metric_name} |-> result.value]
  ELSE result.submetrics

\* The match statement of compute_metrics, for the three accepted shapes.
Normalize(metric_name, result) ==
  CASE result.shape = "pair" ->
         MergeDict([k \in {metric_name} |-> result.value], result.submetrics)
    [] result.shape = "tensor" -> [k \in {metric_name} |-> result.value]
    [] result.shape = "dict" -> result.submetrics

\* The nodes that bear a module of a section, in the order they first do.
AttachedNodes(module_cfgs) ==
  LET firsts == {i \in 1..Len(module_cfgs) :
                   \A j \in 1..(i - 1) :
                     module_cfgs[j].attached_to # module_cfgs[i].attached_to}
      first_cfgs == SubSeqAt(module_cfgs, firsts, 1)
  IN [i \in 1..Len(first_cfgs) |-> first_cfgs[i].attached_to]

\* The (node, metric) pairs of a storage in the order compute_metrics
\* visits them.
RECURSIVE MetricPairs(_, _)
MetricPairs(storage, node_order) ==
  IF node_order = <<>> THEN <<>>
  ELSE LET n == Head(node_order)
       IN [i \in 1..Len(storage[n]) |-> <<n, storage[n][i]>>]
            \o MetricPairs(storage, Tail(node_order))

RECURSIVE ComputeLoop_ResetAtEnd(_, _, _, _)
ComputeLoop_ResetAtEnd(pairs, results, set, acc) ==
  IF pairs = <<>>
  THEN [acc EXCEPT
          !.metric_state =
             [k \in DOMAIN acc.metric_state |->
                IF k[1] = set THEN 0 ELSE acc.metric_state[k]],
          !.metric_log =
             acc.metric_log
               \o [i \in 1..Len(acc.metric_log) |->
                     WasReset(acc.metric_log[i].node,
                              acc.metric_log[i].metric)]]
  ELSE LET node_name == pairs[1][1]
           metric_name == pairs[1][2]
           result == results[pairs[1]]
           computed_log == Append(acc.metric_log,
                                  Computed(node_name, metric_name, result))
       IN IF result.shape \notin {"pair", "tensor", "dict"}
          THEN [acc EXCEPT !.raised = UnexpectedValue,
                           !.metric_log = computed_log]
          ELSE ComputeLoop_ResetAtEnd(
                 Tail(pairs), results, set,
                 [acc EXCEPT
                    !.metric_log = computed_log,
                    !.metric_results =
                       Put(acc.metric_results, node_name,
                           MergeDict(IF node_name \in DOMAIN acc.metric_results
                                     THEN acc.metric_results[node_name]
                                     ELSE EmptyDict,
                                     Normalize(metric_name, result)))])

\* The loops of compute_metrics: every metric is computed, its result is
\* normalized, the metric is reset and the result merged into its node's.
RECURSIVE ComputeLoop(_, _, _, _)
ComputeLoop(pairs, results, set, acc) ==
  IF pairs = <<>> THEN acc
  ELSE LET node_name == pairs[1][1]
           metric_name == pairs[1][2]
           result == results[pairs[1]]
           computed_log == Append(acc.metric_log,
                                  Computed(node_name, metric_name, result))
       IN IF result.shape \notin {"pair", "tensor", "dict"}
          THEN [acc EXCEPT !.raised = UnexpectedValue,
                           !.metric_log = computed_log]
          ELSE ComputeLoop(
                 Tail(pairs), results, set,
                 [acc EXCEPT
                    !.metric_state =
                       [acc.metric_state EXCEPT
                          ![<<set, node_name, metric_name>>] = 0],
                    !.metric_log =
                       Append(computed_log,
                              WasReset(node_name, metric_name)),
                    !.metric_results =
                       Put(acc.metric_results, node_name,
                           MergeDict(IF node_name \in DOMAIN acc.metric_results
                                     THEN acc.metric_results[node_name]
                                     ELSE EmptyDict,
                                     Normalize(metric_name, result)))])

\* compute_metrics(use_train_metrics), with `results` what each compute()
\* returns.
ComputeMetrics(mods, metric_cfgs, use_train_metrics, results, state) ==
  ComputeLoop(MetricPairs(SelectedMetrics(mods, use_train_metrics),
                          AttachedNodes(metric_cfgs)),
              results, MetricSet(use_train_metrics),
              [raised |-> "", metric_results |-> EmptyDict,
               metric_state |-> state, metric_log |-> <<>>])

\* The (node, metric) pairs of a storage.
MetricKeys(storage) ==
  UNION {{<<n, m>> : m \in Range(storage[n])} : n \in DOMAIN storage}

\* An epoch ends: the metrics of a set are computed and reset.
compute_metrics ==
  /\ pc = "ready"
  /\ \E use_train_metrics \in BOOLEAN :
       \E results \in [MetricKeys(SelectedMetrics(modules,
                                                  use_train_metrics))
                         -> ComputeResults] :
         LET r == ComputeMetrics(modules, attached.metrics,
                                 use_train_metrics, results, metric_state)
         IN /\ metric_results' = r.metric_results
            /\ metric_state' = r.metric_state
            /\ metric_log' = r.metric_log
            /\ call' = [DefaultCall EXCEPT
                          !.use_train_metrics = use_train_metrics]
            /\ IF r.raised # "" THEN Raise(r.raised)
               ELSE pc' = "metrics_computed" /\ err' = err
  /\ UNCHANGED <<attached, main_metric, modules, losses, visualizations,
                 module_log>>
  /\ UNCHANGED <<graphVars, lossVars, ckptVars>>
  /\ UNCHANGED runVars

\* The caller logs the computed metrics; the next epoch begins.
epoch_end ==
  /\ pc = "metrics_computed"
  /\ pc' = "ready"
  /\ metric_results' = EmptyDict
  /\ metric_log' = <<>>
  /\ call' = DefaultCall
  /\ UNCHANGED <<err, attached, main_metric, modules, metric_state, losses,
                 visualizations, module_log>>
  /\ UNCHANGED <<graphVars, lossVars, ckptVars>>
  /\ UNCHANGED runVars

(***************************************************************************)
(* LuxonisModel.load_checkpoint.  A tensor is its shape and the value that *)
(* fills it; an artifact maps its top-level keys to their contents.        *)
(***************************************************************************)
\* The parameter keys, in the order both state dicts list them.
ParamKeys == <<"k1", "k2", "k3", "k4">>

Param(shape, value) == [shape |-> shape, value |-> value]

\* Tensor.copy_: the source must be broadcastable to the destination.
CopyFails(dst, src) == src.shape # 1 /\ src.shape # dst.shape

CopyInto_Keep(dst, src) == dst

\* Tensor.copy_: the destination keeps its shape and takes the values.
CopyInto(dst, src) == Param(dst.shape, src.value)

Warning(kind, key) == [kind |-> kind, key |-> key]

NotInModel == "from checkpoint not found in model state dict"

NotInCheckpoint == "was not found in checkpoint"

NotLoaded == "from checkpoint could not be loaded into model"

FilterSaved_KeepAll(saved, live_keys, keys) ==
  [state_dict |-> saved, warnings |-> <<>>]

\* The first loop: the saved entries whose key the live model has, and a
\* warning for every other saved key.
RECURSIVE FilterSaved(_, _, _)
FilterSaved(saved, live_keys, keys) ==
  IF keys = <<>> THEN [state_dict |-> EmptyDict, warnings |-> <<>>]
  ELSE LET key == Head(keys)
           rest == FilterSaved(saved, live_keys, Tail(keys))
       IN IF key \notin DOMAIN saved THEN rest
          ELSE IF key \notin live_keys
          THEN [state_dict |-> rest.state_dict,
                warnings |-> <<Warning(NotInModel, key)>> \o rest.warnings]
          ELSE [state_dict |-> Put(rest.state_dict, key, saved[key]),
                warnings |-> rest.warnings]

RECURSIVE LoadKeys_AbortOnFailure(_, _, _)
LoadKeys_AbortOnFailure(live, sd, keys) ==
  IF keys = <<>> THEN [state_dict |-> live, warnings |-> <<>>]
  ELSE LET key == Head(keys)
       IN IF key \notin DOMAIN live
          THEN LoadKeys_AbortOnFailure(live, sd, Tail(keys))
          ELSE IF key \notin DOMAIN sd
          THEN LET rest == LoadKeys_AbortOnFailure(live, sd, Tail(keys))
               IN [state_dict |-> rest.state_dict,
                   warnings |-> <<Warning(NotInCheckpoint, key)>>
                                  \o rest.warnings]
          ELSE IF CopyFails(live[key], sd[key])
          THEN [state_dict |-> live,
                warnings |-> <<Warning(NotLoaded, key)>>]
          ELSE LoadKeys_AbortOnFailure(
                 Put(live, key, CopyInto(live[key], sd[key])), sd, Tail(keys))

\* The second loop: every live key takes its saved value in place; a key
\* that was not saved, and a key whose copy fails, is warned about and kept.
RECURSIVE LoadKeys(_, _, _)
LoadKeys(live, sd, keys) ==
  IF keys = <<>> THEN [state_dict |-> live, warnings |-> <<>>]
  ELSE LET key == Head(keys)
       IN IF key \notin DOMAIN live THEN LoadKeys(live, sd, Tail(keys))
          ELSE IF key \notin DOMAIN sd \/ CopyFails(live[key], sd[key])
          THEN LET rest == LoadKeys(live, sd, Tail(keys))
                   kind == IF key \notin DOMAIN sd THEN NotInCheckpoint
                           ELSE NotLoaded
               IN [state_dict |-> rest.state_dict,
                   warnings |-> <<Warning(kind, key)>> \o rest.warnings]
          ELSE LoadKeys(Put(live, key, CopyInto(live[key], sd[key])), sd,
                        Tail(keys))

NoStateDict == "ValueError: Checkpoint does not contain state_dict."

LoadCheckpoint_NoStateDictTest(path, artifact, live) ==
  IF path = None
  THEN [raised |-> "", state_dict |-> live, warnings |-> <<>>]
  ELSE LET saved == IF "state_dict" \in DOMAIN artifact
                    THEN artifact["state_dict"] ELSE EmptyDict
           first == FilterSaved(saved, DOMAIN live, ParamKeys)
           second == LoadKeys(live, first.state_dict, ParamKeys)
       IN [raised |-> "", state_dict |-> second.state_dict,
           warnings |-> first.warnings \o second.warnings]

\* load_checkpoint(path): the exception raised ("" if none), the live state
\* dict as the call leaves it, and the warnings it logged.
LoadCheckpoint(path, artifact, live) ==
  IF path = None
  THEN [raised |-> "", state_dict |-> live, warnings |-> <<>>]
  ELSE IF "state_dict" \notin DOMAIN artifact
  THEN [raised |-> NoStateDict, state_dict |-> live, warnings |-> <<>>]
  ELSE LET first == FilterSaved(artifact["state_dict"], DOMAIN live,
                                ParamKeys)
           second == LoadKeys(live, first.state_dict, ParamKeys)
       IN [raised |-> "", state_dict |-> second.state_dict,
           warnings |-> first.warnings \o second.warnings]

\* `self.load_checkpoint(self.cfg.model.weights)`, the last step of __init__.
load_checkpoint ==
  /\ pc = "load_checkpoint"
  /\ LET r == LoadCheckpoint(model_weights, checkpoint, state_dict)
     IN /\ state_dict' = r.state_dict
        /\ warnings' = r.warnings
        /\ IF r.raised # "" THEN Raise(r.raised)
           ELSE pc' = "ready" /\ err' = err
  /\ UNCHANGED <<model_weights, checkpoint>>
  /\ UNCHANGED <<graphVars, lossVars, attVars>>
  /\ UNCHANGED runVars

\* The state dicts over the parameter keys.
ParamValues == {Param(sh, v) : sh \in 1..MaxShape, v \in 0..MaxValue}

StateDicts ==
  UNION {[keys -> ParamValues] :
           keys \in SUBSET {ParamKeys[i] : i \in 1..MaxKeys}}

\* The artifacts: a saved state under "state_dict", or under another key.
Artifacts ==
  {[k \in {"state_dict"} |-> saved] : saved \in StateDicts}
    \cup {[k \in {"model"} |-> EmptyDict], EmptyDict}

\* A model without attached modules, before its construction.
InitNoModules ==
  /\ attached = NoAttached
  /\ main_metric = None
  /\ modules = NoStorages
  /\ metric_state = EmptyDict
  /\ call = DefaultCall
  /\ losses = EmptyDict
  /\ visualizations = EmptyDict
  /\ module_log = <<>>
  /\ metric_results = EmptyDict
  /\ metric_log = <<>>

InitNoCheckpoint ==
  /\ model_weights = None
  /\ checkpoint = EmptyDict
  /\ state_dict = EmptyDict
  /\ warnings = <<>>

(***************************************************************************)
(* LuxonisModel.process_losses.  A loss value is a scalar tensor, alone   *)
(* or in a tuple with its sublosses.                                       *)
(***************************************************************************)
LossValue(scalar, is_tuple, sublosses) ==
  [scalar |-> scalar, is_tuple |-> is_tuple, sublosses |-> sublosses]

\* The (node, loss) entries of a losses mapping.
LossEntries(ld) == UNION {{<<n, l>> : l \in DOMAIN ld[n]} : n \in DOMAIN ld}

\* The sum of the scalars of the entries S of a losses mapping.
RECURSIVE SumScalars(_, _)
SumScalars(ld, S) ==
  IF S = {} THEN 0
  ELSE LET e == CHOOSE y \in S : TRUE
       IN ld[e[1]][e[2]].scalar + SumScalars(ld, S \ {e})

ScaleInPlace_Unweighted(loss_value, weight) == loss_value

\* `loss *= self.loss_weights[loss_name]`: the tensor held by the mapping
\* is multiplied in place.
ScaleInPlace(loss_value, weight) ==
  [loss_value EXCEPT !.scalar = loss_value.scalar * weight]

\* process_losses(losses_dict): the total, the log mapping, and the
\* caller's mapping as the call leaves it.
ProcessLosses(ld, weights, log_sub) ==
  LET after == [n \in DOMAIN ld |->
                  [l \in DOMAIN ld[n] |-> ScaleInPlace(ld[n][l], weights[l])]]
      total == SumScalars(after, LossEntries(ld))
      subKeys == IF log_sub
                 THEN UNION {{<<"loss", e[1], e[2], sname>> :
                                sname \in DOMAIN ld[e[1]][e[2]].sublosses} :
                             e \in LossEntries(ld)}
                 ELSE {}
      keys == {<<"loss">>} \cup {<<"loss", e[1], e[2]>> : e \in LossEntries(ld)}
                \cup subKeys
  IN [final_loss |-> total,
      losses_dict |-> after,
      training_step_output |->
        [k \in keys |->
           IF Len(k) = 1 THEN total
           ELSE IF Len(k) = 3 THEN after[k[2]][k[3]].scalar
           ELSE ld[k[2]][k[3]].sublosses[k[4]]]]

\* The (node, loss) slots a checked losses mapping may fill: a loss name is
\* unique in the losses section, so it belongs to one node.
LossSlots == {<<"A", "L1">>, <<"A", "L2">>, <<"B", "L3">>}

LossValues ==
  {LossValue(v, FALSE, EmptyDict) : v \in 0..MaxLoss}
    \cup {LossValue(v, TRUE, [sname \in {"s"} |-> u]) :
            v \in 0..MaxLoss, u \in 0..MaxLoss}

LossDicts ==
  UNION {{[n \in {e[1] : e \in filled} |->
             [l \in {e[2] : e \in {d \in filled : d[1] = n}} |-> f[<<n, l>>]]] :
            f \in [filled -> LossValues]} : filled \in SUBSET LossSlots}

InitLoss ==
  /\ InitNoRun
  /\ losses_dict \in LossDicts
  /\ loss_weights \in [{e[2] : e \in LossSlots} -> 0..MaxWeight]
  /\ log_sub_losses \in BOOLEAN
  /\ final_loss = <<>>
  /\ step_output = EmptyDict
  /\ pc = "process_losses"
  /\ err = ""
  /\ InitNoCheckpoint
  /\ InitNoModules
  /\ cfg = [nodes |-> <<>>, outputs |-> <<>>]
  /\ outputs = <<>>
  /\ graph = EmptyDict
  /\ input_shapes = EmptyDict
  /\ unprocessed = <<>>
  /\ processed = {}
  /\ dummy_outputs = EmptyDict
  /\ initiated_nodes = <<>>
  /\ build_log = <<>>
  /\ computed = EmptyDict
  /\ run_log = <<>>
  /\ outputs_dict = EmptyDict

\* A call of process_losses on the mapping the caller holds.
process_losses ==
  /\ pc = "process_losses"
  /\ Len(final_loss) < MaxCalls
  /\ LET r == ProcessLosses(losses_dict, loss_weights, log_sub_losses)
     IN /\ final_loss' = Append(final_loss, r.final_loss)
        /\ losses_dict' = r.losses_dict
        /\ step_output' = r.training_step_output
  /\ UNCHANGED <<loss_weights, log_sub_losses, pc, err>>
  /\ UNCHANGED <<graphVars, ckptVars, attVars>>
  /\ UNCHANGED runVars

NextLoss == process_losses

SpecLoss == InitLoss /\ [][NextLoss]_vars

Next ==
  \/ check_graph
  \/ check_unique_names
  \/ init
  \/ initiate_node
  \/ initiate_done
  \/ init_attached
  \/ load_checkpoint
  \/ forward_begin
  \/ forward_node
  \/ forward_return
  \/ next_batch

InitNoLosses ==
  /\ losses_dict = EmptyDict
  /\ loss_weights = EmptyDict
  /\ final_loss = <<>>
  /\ step_output = EmptyDict
  /\ log_sub_losses = FALSE

\* Every checked config: the acyclic ones and the free ones.
Init ==
  /\ InitNoRun
  /\ cfg \in Configs
  /\ InitGraph
  /\ InitNoLosses
  /\ InitNoCheckpoint
  /\ InitNoModules

Spec == Init /\ [][Next]_vars

\* The configs whose graph is acyclic and whose nodes have no alias.
InitDag ==
  /\ InitNoRun
  /\ cfg \in DagConfigs
  /\ InitGraph
  /\ InitNoLosses
  /\ InitNoCheckpoint
  /\ InitNoModules

SpecDag == InitDag /\ [][Next]_vars

(***************************************************************************)
(* Models with attached modules.                                           *)
(***************************************************************************)
ModuleNames == <<"M1", "M2", "M3">>

\* The graphs that bear the modules: the acyclic ones of a few nodes, their
\* outputs derived.
AttachedGraphs ==
  {c \in DagConfigs : Len(c.nodes) \in 1..MaxCfgNodes /\ c.outputs = <<>>}

\* The losses sections: no loss, or one on either node name.
LossSections ==
  {<<>>} \cup {<<LossModuleConfig("L1", None, n, MaxWeight)>> :
                 n \in NodeNames(MaxCfgNodes)}

VisualizerSections ==
  {<<>>} \cup {<<AttachedModuleConfig("V1", None, n)>> :
                 n \in NodeNames(MaxCfgNodes)}

\* The metrics sections of k metrics, named by position, each on either
\* node name; flags and aliases are drawn from the given sets.
RECURSIVE MetricSections(_, _, _)
MetricSections(k, flags, aliases) ==
  IF k = 0 THEN {<<>>}
  ELSE LET shorter == MetricSections(k - 1, flags, aliases)
       IN shorter
            \cup {Append(ms, MetricModuleConfig(ModuleNames[k], a, n, f)) :
                    ms \in {m \in shorter : Len(m) = k - 1},
                    a \in aliases, n \in NodeNames(MaxCfgNodes),
                    f \in flags}

\* Construction of a model with metrics, any of them flagged main, under
\* its name or an alias.
InitBuild ==
  /\ InitNoRun
  /\ cfg \in AttachedGraphs
  /\ InitGraph
  /\ InitNoLosses
  /\ InitNoCheckpoint
  /\ attached \in
       {[losses |-> <<>>, metrics |-> ms, visualizers |-> <<>>] :
          ms \in MetricSections(MaxModules, BOOLEAN, {None, "M1", "Mx"})}
  /\ main_metric = None
  /\ modules = NoStorages
  /\ metric_state = EmptyDict
  /\ call = DefaultCall
  /\ losses = EmptyDict
  /\ visualizations = EmptyDict
  /\ module_log = <<>>
  /\ metric_results = EmptyDict
  /\ metric_log = <<>>

NextBuild ==
  \/ check_graph
  \/ check_unique_names
  \/ init
  \/ initiate_node
  \/ initiate_done
  \/ init_attached
  \/ load_checkpoint

SpecBuild == InitBuild /\ [][NextBuild]_vars

\* A model with losses, metrics and visualizers on its nodes.
InitWithModules ==
  /\ InitNoRun
  /\ cfg \in AttachedGraphs
  /\ InitGraph
  /\ InitNoLosses
  /\ InitNoCheckpoint
  /\ attached \in
       {[losses |-> ls, metrics |-> ms, visualizers |-> vs] :
          ls \in LossSections,
          ms \in MetricSections(MaxModules, {FALSE}, {None}),
          vs \in VisualizerSections}
  /\ main_metric = None
  /\ modules = NoStorages
  /\ metric_state = EmptyDict
  /\ call = DefaultCall
  /\ losses = EmptyDict
  /\ visualizations = EmptyDict
  /\ module_log = <<>>
  /\ metric_results = EmptyDict
  /\ metric_log = <<>>

NextAttached == Next \/ compute_metrics \/ epoch_end

SpecAttached == InitWithModules /\ [][NextAttached]_vars

(***************************************************************************)
(* Training and evaluation epochs: training_step, on_train_epoch_end,      *)
(* _evaluation_step and _evaluation_epoch_end.  A step is entered, forward *)
(* runs node by node, and the step goes on with what forward returned.     *)
(* The value of a loss is left out: a step output is the keys it holds.    *)
(***************************************************************************)
MaxSteps == 2

MaxBatch == 2

MaxLogImages == 3

MaxInterval == 3

\* Python's `a % b` for b # 0: the result has the sign of b.
PyMod(a, b) == IF b > 0 THEN a % b ELSE 0 - ((0 - a) % (0 - b))

IsTrainEvalEpoch_Always(interval, epoch) == interval # -1

\* _is_train_eval_epoch; with an interval of 0 the modulo raises.
IsTrainEvalEpoch(interval, epoch) ==
  interval # -1 /\ PyMod(epoch + 1, interval) = 0

\* The keys of the step output process_losses builds from forward's losses.
StepOutput(ls) ==
  {<<"loss">>}
    \cup UNION {{<<"loss", n, l>> : l \in DOMAIN ls[n]} : n \in DOMAIN ls}

\* forward is entered with the arguments c.
EnterForward(c) ==
  /\ call' = c
  /\ losses' = EmptyDict
  /\ visualizations' = EmptyDict
  /\ module_log' = <<>>
  /\ computed' = InitialComputed(InputDict(cfg.nodes, DOMAIN input_shapes))
  /\ run_log' = <<>>
  /\ outputs_dict' = EmptyDict
  /\ unprocessed' = NodeOrder(cfg.nodes)
  /\ processed' = {}
  /\ pc' = "forward"
  /\ UNCHANGED <<cfg, outputs, err, graph, input_shapes, dummy_outputs,
                 initiated_nodes, build_log>>

\* training_step, up to the return of its forward call.
training_step ==
  /\ pc = "ready"
  /\ current_epoch < MaxEpochs
  /\ Len(training_step_outputs) < MaxSteps
  /\ IF train_metrics_interval = 0
     THEN /\ Raise("ZeroDivisionError")
          /\ UNCHANGED <<passVars, stage>>
          /\ UNCHANGED graphVars
     ELSE /\ EnterForward(
               ForwardCall(TRUE, FALSE, TRUE,
                           IsTrainEvalEpoch(train_metrics_interval,
                                            current_epoch),
                           FALSE, TRUE))
          /\ stage' = "train"
  /\ UNCHANGED <<attached, main_metric, modules, metric_state,
                 metric_results, metric_log>>
  /\ UNCHANGED <<lossVars, ckptVars>>
  /\ UNCHANGED <<exportVars, freezeVars, callbackVars>>
  /\ UNCHANGED <<current_epoch, train_metrics_interval,
                 training_step_outputs, validation_step_outputs,
                 logged_images, num_log_images, image_log, batch_size,
                 verbose>>

\* training_step, from the return of its forward call.
training_step_return ==
  /\ pc = "returned"
  /\ stage = "train"
  /\ IF losses = EmptyDict
     THEN /\ Raise("AssertionError: Losses are empty")
          /\ UNCHANGED training_step_outputs
     ELSE /\ training_step_outputs' =
               Append(training_step_outputs, StepOutput(losses))
          /\ pc' = "ready"
          /\ err' = err
  /\ stage' = ""
  /\ UNCHANGED <<cfg, outputs, graph, input_shapes, unprocessed, processed,
                 dummy_outputs, initiated_nodes, build_log, computed,
                 run_log, outputs_dict>>
  /\ UNCHANGED <<lossVars, ckptVars, attVars>>
  /\ UNCHANGED <<exportVars, freezeVars, callbackVars>>
  /\ UNCHANGED <<current_epoch, train_metrics_interval,
                 validation_step_outputs, logged_images, num_log_images,
                 image_log, batch_size, verbose>>

\* on_train_epoch_end; the trainer then moves to the next epoch.
on_train_epoch_end ==
  /\ pc = "ready"
  /\ current_epoch < MaxEpochs
  /\ IF train_metrics_interval = 0
     THEN /\ Raise("ZeroDivisionError")
          /\ UNCHANGED <<metric_results, metric_state, metric_log,
                         training_step_outputs, current_epoch>>
     ELSE IF IsTrainEvalEpoch(train_metrics_interval, current_epoch)
     THEN \E results \in [MetricKeys(modules.train_metrics)
                            -> ComputeResults] :
            LET r == ComputeMetrics(modules, attached.metrics, TRUE,
                                    results, metric_state)
            IN /\ metric_results' = r.metric_results
               /\ metric_state' = r.metric_state
               /\ metric_log' = r.metric_log
               /\ IF r.raised # ""
                  THEN /\ Raise(r.raised)
                       /\ UNCHANGED <<training_step_outputs, current_epoch>>
                  ELSE /\ training_step_outputs' = <<>>
                       /\ current_epoch' = current_epoch + 1
                       /\ UNCHANGED <<pc, err>>
     ELSE /\ metric_results' = EmptyDict
          /\ metric_log' = <<>>
          /\ training_step_outputs' = <<>>
          /\ current_epoch' = current_epoch + 1
          /\ UNCHANGED <<metric_state, pc, err>>
  /\ UNCHANGED <<attached, main_metric, modules, passVars>>
  /\ UNCHANGED <<graphVars, lossVars, ckptVars>>
  /\ UNCHANGED <<exportVars, freezeVars, callbackVars>>
  /\ UNCHANGED <<train_metrics_interval, validation_step_outputs,
                 logged_images, num_log_images, image_log, stage, batch_size,
                 verbose>>

\* _evaluation_step, up to the return of its forward call: the images are
\* handed over while fewer than num_log_images are logged.
evaluation_step ==
  /\ pc = "ready"
  /\ Len(validation_step_outputs) < MaxSteps
  /\ stage' \in {"val", "test"}
  /\ batch_size' \in 1..MaxBatch
  /\ EnterForward(ForwardCall(TRUE, logged_images < num_log_images, TRUE,
                              TRUE, TRUE, FALSE))
  /\ UNCHANGED <<attached, main_metric, modules, metric_state,
                 metric_results, metric_log>>
  /\ UNCHANGED <<lossVars, ckptVars>>
  /\ UNCHANGED <<exportVars, freezeVars, callbackVars>>
  /\ UNCHANGED <<current_epoch, train_metrics_interval,
                 training_step_outputs, validation_step_outputs,
                 logged_images, num_log_images, image_log, verbose>>

\* logger.log_image(f"{mode}/visualizations/{node_name}/{viz_name}/{index}")
LoggedImage(mode, node_name, viz_name, index) ==
  [mode |-> mode, node |-> node_name, viz |-> viz_name, index |-> index]

LoggedCount_NoLimit(start, num, batch) == batch

\* The inner loop over a visualizer's batch: how many images it logs from
\* the index `start` on, before it breaks or the batch ends.
LoggedCount(start, num, batch) ==
  IF start >= num THEN 0
  ELSE IF start + batch <= num THEN batch ELSE num - start

IsVisualizerRun(run) == run.kind = "visualizer"

\* The loops over outputs.visualizations: every visualizer starts at
\* self._logged_images, and the last one leaves its count.
RECURSIVE LogVisualizations(_, _, _, _, _, _)
LogVisualizations(runs, mode, start, num, batch, acc) ==
  IF runs = <<>> THEN acc
  ELSE LET count == LoggedCount(start, num, batch)
       IN LogVisualizations(
            Tail(runs), mode, start, num, batch,
            [logged_images |-> start + count,
             image_log |->
               acc.image_log
                 \o [i \in 1..count |->
                       LoggedImage(mode, runs[1].node, runs[1].module,
                                   start + i - 1)]])

\* _evaluation_step, from the return of its forward call; every visualizer
\* returns one image per sample of the batch.
evaluation_step_return ==
  /\ pc = "returned"
  /\ stage \in {"val", "test"}
  /\ validation_step_outputs' =
       Append(validation_step_outputs, StepOutput(losses))
  /\ LET r == LogVisualizations(
                SelectSeq(module_log, IsVisualizerRun), stage,
                logged_images, num_log_images, batch_size,
                [logged_images |-> logged_images, image_log |-> <<>>])
     IN /\ logged_images' = r.logged_images
        /\ image_log' = image_log \o r.image_log
  /\ pc' = "ready"
  /\ stage' = ""
  /\ UNCHANGED <<cfg, outputs, err, graph, input_shapes, unprocessed,
                 processed, dummy_outputs, initiated_nodes, build_log,
                 computed, run_log, outputs_dict>>
  /\ UNCHANGED <<lossVars, ckptVars, attVars>>
  /\ UNCHANGED <<exportVars, freezeVars, callbackVars>>
  /\ UNCHANGED <<current_epoch, train_metrics_interval,
                 training_step_outputs, num_log_images, batch_size, verbose>>

\* _print_results: `metrics[main_metric_node][main_metric_name]`
PrintResultsRaises(main, metrics) ==
  /\ main # None
  /\ \/ main[1] \notin DOMAIN metrics
     \/ main[3] \notin DOMAIN metrics[main[1]]

\* _evaluation_epoch_end
evaluation_epoch_end ==
  /\ pc = "ready"
  /\ \E results \in [MetricKeys(modules.metrics) -> ComputeResults] :
       LET r == ComputeMetrics(modules, attached.metrics, FALSE, results,
                               metric_state)
       IN /\ metric_results' = r.metric_results
          /\ metric_state' = r.metric_state
          /\ metric_log' = r.metric_log
          /\ IF r.raised # ""
             THEN /\ Raise(r.raised)
                  /\ UNCHANGED <<validation_step_outputs, logged_images,
                                 image_log>>
             ELSE IF verbose /\ PrintResultsRaises(main_metric,
                                                   r.metric_results)
             THEN /\ Raise("KeyError: main metric")
                  /\ UNCHANGED <<validation_step_outputs, logged_images,
                                 image_log>>
             ELSE /\ validation_step_outputs' = <<>>
                  /\ logged_images' = 0
                  /\ image_log' = <<>>
                  /\ UNCHANGED <<pc, err>>
  /\ UNCHANGED <<attached, main_metric, modules, passVars>>
  /\ UNCHANGED <<graphVars, lossVars, ckptVars>>
  /\ UNCHANGED <<exportVars, freezeVars, callbackVars>>
  /\ UNCHANGED <<current_epoch, train_metrics_interval,
                 training_step_outputs, num_log_images, stage, batch_size,
                 verbose>>

\* The construction of a model, from its checked config to its readiness.
Construct ==
  \/ check_graph
  \/ check_unique_names
  \/ init
  \/ initiate_node
  \/ initiate_done
  \/ init_attached
  \/ load_checkpoint

\* A model with losses and metrics, trained at any interval of train
\* metrics, and evaluated between the training steps.
InitTrainEpochs ==
  /\ InitNoExport
  /\ InitNoFreezing
  /\ InitNoCallbacks
  /\ cfg \in AttachedGraphs
  /\ InitGraph
  /\ InitNoLosses
  /\ InitNoCheckpoint
  /\ attached \in
       {[losses |-> ls, metrics |-> ms, visualizers |-> <<>>] :
          ls \in LossSections,
          ms \in MetricSections(1, {FALSE}, {None})}
  /\ main_metric = None
  /\ modules = NoStorages
  /\ metric_state = EmptyDict
  /\ call = DefaultCall
  /\ losses = EmptyDict
  /\ visualizations = EmptyDict
  /\ module_log = <<>>
  /\ metric_results = EmptyDict
  /\ metric_log = <<>>
  /\ current_epoch = 0
  /\ train_metrics_interval \in (0 - MaxInterval)..MaxInterval
  /\ training_step_outputs = <<>>
  /\ validation_step_outputs = <<>>
  /\ logged_images = 0
  /\ num_log_images = 0
  /\ image_log = <<>>
  /\ stage = ""
  /\ batch_size = 0
  /\ verbose = FALSE

NextTrainEpochs ==
  \/ Construct
  \/ training_step
  \/ forward_node
  \/ forward_return
  \/ training_step_return
  \/ on_train_epoch_end
  \/ evaluation_step
  \/ evaluation_step_return
  \/ evaluation_epoch_end

SpecTrainEpochs == InitTrainEpochs /\ [][NextTrainEpochs]_vars

\* The visualizers sections: up to MaxModules visualizers on either node.
EvalVisualizerSections ==
  {<<>>}
    \cup {<<AttachedModuleConfig("V1", None, n)>> :
            n \in NodeNames(MaxCfgNodes)}
    \cup {<<AttachedModuleConfig("V1", None, n),
            AttachedModuleConfig("V2", None, m)>> :
            n \in NodeNames(MaxCfgNodes), m \in NodeNames(MaxCfgNodes)}

\* A model with metrics and visualizers, evaluated in steps and epochs.
InitEval ==
  /\ InitNoExport
  /\ InitNoFreezing
  /\ InitNoCallbacks
  /\ cfg \in AttachedGraphs
  /\ InitGraph
  /\ InitNoLosses
  /\ InitNoCheckpoint
  /\ attached \in
       {[losses |-> <<>>, metrics |-> ms, visualizers |-> vs] :
          ms \in MetricSections(1, BOOLEAN, {None}),
          vs \in EvalVisualizerSections}
  /\ main_metric = None
  /\ modules = NoStorages
  /\ metric_state = EmptyDict
  /\ call = DefaultCall
  /\ losses = EmptyDict
  /\ visualizations = EmptyDict
  /\ module_log = <<>>
  /\ metric_results = EmptyDict
  /\ metric_log = <<>>
  /\ current_epoch = 0
  /\ train_metrics_interval = -1
  /\ training_step_outputs = <<>>
  /\ validation_step_outputs = <<>>
  /\ logged_images = 0
  /\ num_log_images \in 0..MaxLogImages
  /\ image_log = <<>>
  /\ stage = ""
  /\ batch_size = 0
  /\ verbose \in BOOLEAN

NextEval ==
  \/ Construct
  \/ evaluation_step
  \/ forward_node
  \/ forward_return
  \/ evaluation_step_return
  \/ evaluation_epoch_end

SpecEval == InitEval /\ [][NextEval]_vars

\* A model with any parameters is about to load any artifact.
InitCkpt ==
  /\ InitNoRun
  /\ model_weights \in {None, "weights.ckpt"}
  /\ checkpoint \in Artifacts
  /\ state_dict \in StateDicts
  /\ warnings = <<>>
  /\ InitNoModules
  /\ pc = "load_checkpoint"
  /\ err = ""
  /\ cfg = [nodes |-> <<>>, outputs |-> <<>>]
  /\ outputs = <<>>
  /\ graph = EmptyDict
  /\ input_shapes = EmptyDict
  /\ unprocessed = <<>>
  /\ processed = {}
  /\ dummy_outputs = EmptyDict
  /\ initiated_nodes = <<>>
  /\ build_log = <<>>
  /\ computed = EmptyDict
  /\ run_log = <<>>
  /\ outputs_dict = EmptyDict
  /\ InitNoLosses

NextCkpt == load_checkpoint

SpecCkpt == InitCkpt /\ [][NextCkpt]_vars

(***************************************************************************)
(* Training: the callbacks are configured when fit begins, the trainer     *)
(* leaves a best path, or none, in every ModelCheckpoint, and                *)
(* on_train_end is called on every callback in turn.                       *)
(***************************************************************************)
\* LuxonisModel.configure_callbacks, called by the trainer as fit begins.
configure_callbacks ==
  /\ pc = "ready"
  /\ callbacks' = ConfigureCallbacks(main_metric, frozen_nodes, use_rich_text,
                                     trainer_callbacks)
  /\ best_model_path' = [k \in 1..Len(CheckpointCallbacks(callbacks')) |-> ""]
  /\ pc' = "fit"
  /\ UNCHANGED <<use_rich_text, trainer_callbacks, is_mlflow, upload_url,
                 export_log, hooks_run, err>>
  /\ UNCHANGED <<graphVars, lossVars, ckptVars, attVars>>
  /\ UNCHANGED <<exportVars, freezeVars, epochVars>>

\* Core.get_min_loss_checkpoint_path
GetMinLossCheckpointPath(paths) == paths[1]

\* Core.get_best_metric_checkpoint_path
GetBestMetricCheckpointPath(paths) ==
  IF Len(paths) > 1 THEN paths[2] ELSE "IndexError"

\* The training itself: every ModelCheckpoint has saved a best model in its
\* directory, or none.
fit ==
  /\ pc = "fit"
  /\ LET cps == CheckpointCallbacks(callbacks)
     IN best_model_path' \in
          {f \in [1..Len(cps) -> {""} \cup {c.dirpath : c \in Range(cps)}] :
             \A k \in 1..Len(cps) : f[k] \in {"", cps[k].dirpath}}
  /\ pc' = "train_end"
  /\ UNCHANGED <<use_rich_text, trainer_callbacks, callbacks, is_mlflow,
                 upload_url, export_log, hooks_run, err>>
  /\ UNCHANGED <<graphVars, lossVars, ckptVars, attVars>>
  /\ UNCHANGED <<exportVars, freezeVars, epochVars>>

\* f"mlflow://{tracker.project_id}/{tracker.run_id}"
MlflowUrl == "mlflow://project/run"

\* The url overridden whatever cfg.tracker.is_mlflow is.
NewUploadUrl_NoMlflowTest(upload_to_mlflow, mlflow, url) ==
  IF upload_to_mlflow THEN MlflowUrl ELSE url

\* Lines 51-61.
NewUploadUrl(upload_to_mlflow, mlflow, url) ==
  IF upload_to_mlflow /\ mlflow THEN MlflowUrl ELSE url

\* The best path taken from the last ModelCheckpoint.
BestModelPath_Last(paths) == paths[Len(paths)]

\* Lines 36-42: model_checkpoint_callbacks[0].best_model_path
BestModelPath(paths) == paths[1]

NoBestModelPath == "RuntimeError: No best model path found."

\* ExportOnTrainEnd.on_train_end, on the next callback of the trainer.
on_train_end ==
  /\ pc = "train_end"
  /\ hooks_run < Len(callbacks)
  /\ callbacks[hooks_run + 1].type = "ExportOnTrainEnd"
  /\ hooks_run' = hooks_run + 1
  /\ LET best == BestModelPath(best_model_path)
     IN IF best = ""
        THEN /\ Raise(NoBestModelPath)
             /\ UNCHANGED <<model_weights, upload_url, export_log>>
        ELSE /\ model_weights' = best
             /\ upload_url' =
                  NewUploadUrl(callbacks[hooks_run + 1].upload_to_mlflow,
                               is_mlflow, upload_url)
             /\ export_log' =
                  Append(export_log, [weights |-> model_weights',
                                      upload_url |-> upload_url'])
             /\ UNCHANGED <<pc, err>>
  /\ UNCHANGED <<use_rich_text, trainer_callbacks, callbacks, best_model_path,
                 is_mlflow>>
  /\ UNCHANGED <<checkpoint, state_dict, warnings>>
  /\ UNCHANGED <<graphVars, lossVars, attVars>>
  /\ UNCHANGED <<exportVars, freezeVars, epochVars>>

\* on_train_end of a callback that is no ExportOnTrainEnd.
other_train_end ==
  /\ pc = "train_end"
  /\ hooks_run < Len(callbacks)
  /\ callbacks[hooks_run + 1].type # "ExportOnTrainEnd"
  /\ hooks_run' = hooks_run + 1
  /\ UNCHANGED <<use_rich_text, trainer_callbacks, callbacks, best_model_path,
                 is_mlflow, upload_url, export_log, pc, err>>
  /\ UNCHANGED <<graphVars, lossVars, ckptVars, attVars>>
  /\ UNCHANGED <<exportVars, freezeVars, epochVars>>

\* The unfreeze_after a config may give: None, an int, a float.
UnfreezeValues ==
  {NoEpoch} \cup {IntEpoch(k) : k \in 0..MaxUnfreeze}
    \cup {FloatEpoch(num, FractionDen) : num \in 0..(FractionDen + 1)}

FreezingConfigs ==
  {FreezingConfig(a, u) : a \in BOOLEAN, u \in UnfreezeValues}

\* Construction of models whose nodes give a freeze spec, or none.
InitFreeze ==
  /\ cfg \in AttachedGraphs
  /\ InitGraph
  /\ InitNoLosses
  /\ InitNoCheckpoint
  /\ InitNoModules
  /\ InitNoExport
  /\ InitNoCallbacks
  /\ InitNoEpochs
  /\ freezing \in SectionsOver(FreezingConfigs, Len(cfg.nodes))
  /\ epochs \in 1..MaxEpochs
  /\ frozen_nodes = <<>>

NextFreeze ==
  \/ check_graph
  \/ check_unique_names
  \/ init
  \/ initiate_node
  \/ initiate_done
  \/ init_attached
  \/ load_checkpoint
  \/ configure_callbacks

SpecFreeze == InitFreeze /\ [][NextFreeze]_vars

\* The callbacks a config may list.
CallbackConfigs ==
  {CallbackConfig("ExportOnTrainEnd", a, u) : a, u \in BOOLEAN}
    \cup {CallbackConfig("EarlyStopping", a, FALSE) : a \in BOOLEAN}

\* Training of models with a main metric or none, frozen nodes or none, and
\* callbacks of the config, active or not.
InitTrain ==
  /\ cfg \in AttachedGraphs
  /\ InitGraph
  /\ InitNoLosses
  /\ InitNoCheckpoint
  /\ InitNoExport
  /\ attached \in
       {[losses |-> <<>>, metrics |-> ms, visualizers |-> <<>>] :
          ms \in MetricSections(1, BOOLEAN, {None})}
  /\ main_metric = None
  /\ modules = NoStorages
  /\ metric_state = EmptyDict
  /\ call = DefaultCall
  /\ losses = EmptyDict
  /\ visualizations = EmptyDict
  /\ module_log = <<>>
  /\ metric_results = EmptyDict
  /\ metric_log = <<>>
  /\ freezing \in {<<>>, <<FreezingConfig(TRUE, NoEpoch)>>}
  /\ epochs = MaxEpochs
  /\ frozen_nodes = <<>>
  /\ use_rich_text \in BOOLEAN
  /\ trainer_callbacks \in SectionsOver(CallbackConfigs, MaxModules)
  /\ callbacks = <<>>
  /\ best_model_path = <<>>
  /\ is_mlflow \in BOOLEAN
  /\ upload_url = None
  /\ export_log = <<>>
  /\ hooks_run = 0
  /\ InitNoEpochs

NextTrain ==
  \/ check_graph
  \/ check_unique_names
  \/ init
  \/ initiate_node
  \/ initiate_done
  \/ init_attached
  \/ load_checkpoint
  \/ configure_callbacks
  \/ fit
  \/ on_train_end
  \/ other_train_end

SpecTrain == InitTrain /\ [][NextTrain]_vars

(***************************************************************************)
(* Export of a built model.                                                *)
(***************************************************************************)
\* The Packets: some of the slots in some order, each of 0..MaxTensors
\* tensors.
ExportPackets(node_name) ==
  UNION {{[k \in 1..Len(slots) |->
             <<slots[k], [i \in 1..lens[k] |->
                            OutTensor(node_name, slots[k], i - 1)]>>] :
            lens \in [1..Len(slots) -> 0..MaxTensors]} :
         slots \in ListsOver(Range(SlotNames), Len(SlotNames))}

\* What forward returns: the Packets of the output nodes, in the order the
\* nodes were run.
ExportOutputs ==
  UNION {{[k \in 1..Len(ns) |-> <<ns[k], ps[k]>>] :
            ps \in {f \in [1..Len(ns) -> UNION {ExportPackets(n) :
                                                  n \in Range(ns)}] :
                      \A k \in 1..Len(ns) : f[k] \in ExportPackets(ns[k])}} :
         ns \in ListsOver(NodeNames(MaxCfgNodes), MaxCfgNodes)}

\* k names written by the user.
GivenNames(tag, k) == [i \in 1..k |-> <<tag, i>>]

MaxGiven == MaxCfgNodes * Len(SlotNames) * MaxTensors + 1

InitExport ==
  /\ cfg \in {[nodes |-> <<>>, outputs |-> <<>>]}
  /\ outputs = <<>>
  /\ pc = "export"
  /\ err = ""
  /\ graph = EmptyDict
  /\ input_shapes = EmptyDict
  /\ unprocessed = <<>>
  /\ processed = {}
  /\ dummy_outputs = EmptyDict
  /\ initiated_nodes = <<>>
  /\ build_log = <<>>
  /\ computed = EmptyDict
  /\ run_log = <<>>
  /\ outputs_dict = EmptyDict
  /\ InitNoLosses
  /\ InitNoCheckpoint
  /\ InitNoModules
  /\ export_outputs \in ExportOutputs
  /\ output_names \in
       {NoNames} \cup {GivenList(GivenNames("out", k)) : k \in 0..MaxGiven}
  /\ kwargs \in {NoNames, GivenList(GivenNames("kw", 1))}
  /\ InitNoValues
  /\ output_order = <<>>
  /\ exported = <<>>
  /\ onnx_names = <<>>
  /\ export_result = <<>>
  /\ InitNoFreezing
  /\ InitNoCallbacks
  /\ InitNoEpochs

\* LuxonisModel.export_onnx
export_onnx ==
  /\ pc = "export"
  /\ LET r == ExportOnnx(export_outputs, output_names, kwargs)
     IN /\ output_order' = r.output_order
        /\ output_names' = r.cfg_names
        /\ exported' = r.exported
        /\ onnx_names' = r.onnx_names
        /\ export_result' = r.returned
  /\ pc' = "exported"
  /\ UNCHANGED <<export_outputs, kwargs, err>>
  /\ UNCHANGED <<given_values, scale_values, mean_values>>
  /\ UNCHANGED <<graphVars, lossVars, ckptVars, attVars>>
  /\ UNCHANGED <<freezeVars, callbackVars, epochVars>>

NextExport == export_onnx

SpecExport == InitExport /\ [][NextExport]_vars

(***************************************************************************)
(* Validation of an ExportConfig.  The fields are validated against their  *)
(* type, list[float] | None, and check_values then pads them.              *)
(***************************************************************************)
MaxValues == 3

MaxNumber == 2

\* What scale_values or mean_values may be given as.
GivenValues ==
  {NoValues}
    \cup {FloatValue(v) : v \in 0..MaxNumber}
    \cup {ListValues(l) : l \in SectionsOver(0..MaxNumber, MaxValues)}

\* An ExportConfig is about to be validated.
InitValues ==
  /\ cfg \in {[nodes |-> <<>>, outputs |-> <<>>]}
  /\ outputs = <<>>
  /\ pc = "validate"
  /\ err = ""
  /\ graph = EmptyDict
  /\ input_shapes = EmptyDict
  /\ unprocessed = <<>>
  /\ processed = {}
  /\ dummy_outputs = EmptyDict
  /\ initiated_nodes = <<>>
  /\ build_log = <<>>
  /\ computed = EmptyDict
  /\ run_log = <<>>
  /\ outputs_dict = EmptyDict
  /\ InitNoLosses
  /\ InitNoCheckpoint
  /\ InitNoModules
  /\ InitNoFreezing
  /\ InitNoCallbacks
  /\ InitNoEpochs
  /\ export_outputs = <<>>
  /\ output_names = NoNames
  /\ kwargs = NoNames
  /\ output_order = <<>>
  /\ exported = <<>>
  /\ onnx_names = <<>>
  /\ export_result = <<>>
  /\ given_values \in [scale_values : GivenValues, mean_values : GivenValues]
  /\ scale_values = NoValues
  /\ mean_values = NoValues

\* The validation of the fields against `list[float] | None`: a value that
\* is neither is refused.
validate_fields ==
  /\ pc = "validate"
  /\ IF \/ given_values.scale_values.kind = "float"
        \/ given_values.mean_values.kind = "float"
     THEN /\ Raise("ValidationError")
          /\ UNCHANGED <<scale_values, mean_values>>
     ELSE /\ scale_values' = given_values.scale_values
          /\ mean_values' = given_values.mean_values
          /\ pc' = "check_values"
          /\ err' = err
  /\ UNCHANGED <<export_outputs, output_names, kwargs, output_order,
                 exported, onnx_names, export_result, given_values>>
  /\ UNCHANGED <<cfg, outputs, graph, input_shapes, unprocessed, processed,
                 dummy_outputs, initiated_nodes, build_log, computed,
                 run_log, outputs_dict>>
  /\ UNCHANGED <<lossVars, ckptVars, attVars>>
  /\ UNCHANGED <<freezeVars, callbackVars, epochVars>>

\* ExportConfig.check_values
check_values ==
  /\ pc = "check_values"
  /\ scale_values' = pad_values(scale_values)
  /\ mean_values' = pad_values(mean_values)
  /\ pc' = "validated"
  /\ UNCHANGED <<export_outputs, output_names, kwargs, output_order,
                 exported, onnx_names, export_result, given_values, err>>
  /\ UNCHANGED <<cfg, outputs, graph, input_shapes, unprocessed, processed,
                 dummy_outputs, initiated_nodes, build_log, computed,
                 run_log, outputs_dict>>
  /\ UNCHANGED <<lossVars, ckptVars, attVars>>
  /\ UNCHANGED <<freezeVars, callbackVars, epochVars>>

NextValues == validate_fields \/ check_values

SpecValues == InitValues /\ [][NextValues]_vars

(***************************************************************************)
(* Validation of the names of the four sections.                           *)
(***************************************************************************)
\* The names and aliases the entries of a section are written with.
SectionNames == NodeNames(MaxCfgNodes)

SectionAliases == {None, "A"}

\* The nodes sections: up to MaxModules input nodes, names and aliases free.
NodeSections ==
  SectionsOver({ModelNodeConfig(n, a, <<>>, <<"x">>) :
               n \in SectionNames, a \in SectionAliases}, MaxModules)

\* The sections of attached modules, names and aliases free.
ModuleSections ==
  SectionsOver({AttachedModuleConfig(n, a, "A") :
               n \in SectionNames, a \in SectionAliases}, MaxModules)

InitNames ==
  /\ InitNoRun
  /\ cfg \in {[nodes |-> ns, outputs |-> <<>>] : ns \in NodeSections}
  /\ InitGraph
  /\ InitNoLosses
  /\ InitNoCheckpoint
  /\ attached \in [{"losses", "metrics", "visualizers"} -> ModuleSections]
  /\ main_metric = None
  /\ modules = NoStorages
  /\ metric_state = EmptyDict
  /\ call = DefaultCall
  /\ losses = EmptyDict
  /\ visualizations = EmptyDict
  /\ module_log = <<>>
  /\ metric_results = EmptyDict
  /\ metric_log = <<>>

NextNames == check_graph \/ check_unique_names

SpecNames == InitNames /\ [][NextNames]_vars

(***************************************************************************)
(* Properties of the forward pass.                                         *)
(***************************************************************************)
\* The index in a log of the call made for node n (0 if there is none).
LogIndex(log, n) ==
  IF \E k \in 1..Len(log) : log[k].node = n
  THEN CHOOSE k \in 1..Len(log) : log[k].node = n
  ELSE 0

\* The Packet node n produced according to a log of runs.
Produced(log, n) == NodeRun(n, log[LogIndex(log, n)].inputs)

\* A forward pass is under way, or has just ended.
InPass == pc \in {"forward", "returned"}

\* The pass has ended: forward has returned, or has raised.
PassEnded == pc = "returned" \/ (pc = "raised" /\ err = "KeyError: computed")

\* The unprocessed nodes that list n among their predecessors.
PendingConsumers(n) ==
  {m \in Range(unprocessed) : n \in Range(graph[m])}

\* The graph {A: [], B: [A], C: [A], D: [B, C]}.
IsDiamond ==
  /\ DOMAIN graph = {"A", "B", "C", "D"}
  /\ graph["A"] = <<>>
  /\ graph["B"] = <<"A">>
  /\ graph["C"] = <<"A">>
  /\ graph["D"] = <<"B", "C">>

\* C1: in every forward pass over an acyclic graph, no node is run twice,
\* a node is run only after all of its declared predecessors, and when the
\* pass has ended every node of the graph has been run.
C1_EachNodeRunOnceInOrder ==
  /\ \A j, k \in 1..Len(run_log) : run_log[j].node = run_log[k].node => j = k
  /\ \A k \in 1..Len(run_log) :
       \A p \in Range(graph[run_log[k].node]) :
         \E j \in 1..(k - 1) : run_log[j].node = p
  /\ PassEnded => \A n \in DOMAIN graph : LogIndex(run_log, n) # 0

\* C2: a node with predecessors is run on the list of the Packets its
\* declared predecessors produced, in declared order (a list of one for one
\* predecessor), and until it is run the Packet of each predecessor that has
\* run stays in the cache; in the diamond, A's Packet is cached until both
\* B and C have run.
C2_PredecessorPacketsCached ==
  /\ \A k \in 1..Len(run_log) :
       LET n == run_log[k].node
       IN graph[n] # <<>> =>
            /\ Len(run_log[k].inputs) = Len(graph[n])
            /\ \A i \in 1..Len(graph[n]) :
                 /\ LogIndex(run_log, graph[n][i]) \in 1..(k - 1)
                 /\ run_log[k].inputs[i] = Produced(run_log, graph[n][i])
  /\ pc = "forward" =>
       \A n \in Range(unprocessed) : \A p \in Range(graph[n]) \cap processed :
         /\ p \in DOMAIN computed
         /\ computed[p] = Produced(run_log, p)
  /\ (pc = "forward" /\ IsDiamond /\ "A" \in processed
        /\ ({"B", "C"} \cap Range(unprocessed)) # {})
       => "A" \in DOMAIN computed

\* C2 witness: in the diamond, D has been run on the Packets of B and C.
C2_Witness ==
  /\ IsDiamond
  /\ pc = "forward"
  /\ LogIndex(run_log, "D") = 4
  /\ run_log[4].inputs = <<Produced(run_log, "B"), Produced(run_log, "C")>>
  /\ run_log[2].inputs = <<Produced(run_log, "A")>>

\* C3: during a forward pass the input Packet of every input node that has
\* not been run yet is in the cache.
C3_UnconsumedInputsKept ==
  pc = "forward" =>
    \A n \in Range(unprocessed) :
      graph[n] = <<>> => InputKey(n) \in DOMAIN computed

\* C4: after every eviction scan the cache holds no entry for a node that
\* is neither a declared output nor a predecessor of an unprocessed node.
C4_NoDeadEntryCached ==
  InPass =>
    \A n \in DOMAIN computed \cap DOMAIN graph :
      n \in Range(outputs) \/ PendingConsumers(n) # {}

\* C5: the Packet of a declared output node stays in the cache from the
\* moment the node has run, and what forward returns is one entry per
\* declared output node, holding the Packet that node produced, and nothing
\* else.
C5_OutputsKeptAndReturned ==
  /\ InPass =>
       \A n \in Range(outputs) \cap processed :
         n \in DOMAIN computed /\ computed[n] = Produced(run_log, n)
  /\ pc = "returned" =>
       /\ DOMAIN outputs_dict = Range(outputs)
       /\ \A n \in DOMAIN outputs_dict :
            /\ LogIndex(run_log, n) # 0
            /\ outputs_dict[n] = Produced(run_log, n)

\* C5 witness: forward has returned the Packets of two declared outputs, one
\* of them a node that other nodes consume.
C5_Witness ==
  /\ pc = "returned"
  /\ Len(run_log) = 3
  /\ DOMAIN outputs_dict = {"A", "C"}
  /\ graph["B"] = <<"A">>
  /\ graph["C"] = <<"B", "A">>

\* The declared config of the node of (effective) name n.
NodeCfgOf(n) == cfg.nodes[LastIndex(cfg.nodes, n)]

\* The input Packet a batch gives a node: the tensors at the loader inputs
\* the node declares, in declared order.
DeclaredInput(n) ==
  Features([k \in 1..Len(NodeCfgOf(n).loader_inputs) |->
              Tensor(NodeCfgOf(n).loader_inputs[k])])

\* C6: every node without predecessors, under its type name or an alias, is
\* run by forward, and on exactly the batch tensors at the loader inputs it
\* declares, in declared order.
C6_InputNodeRunOnDeclaredInputs ==
  /\ \A k \in 1..Len(run_log) :
       graph[run_log[k].node] = <<>> =>
         run_log[k].inputs = <<DeclaredInput(run_log[k].node)>>
  /\ pc = "forward" =>
       \A n \in Range(unprocessed) :
         (graph[n] = <<>> /\ processed = {}) =>
           /\ InputKey(n) \in DOMAIN computed
           /\ computed[InputKey(n)] = DeclaredInput(n)

(***************************************************************************)
(* Properties of the lazy build.                                           *)
(***************************************************************************)
\* The model has been constructed.
Built == pc \in {"ready", "forward", "returned"} \/ PassEnded

\* C7: _initiate_nodes constructs every node exactly once, an input node on
\* its dummy input Packet and any other node on the dummy Packets its
\* predecessors produced, each predecessor constructed and run before it;
\* no node is constructed again once the model is built.
C7_NodesBuiltOnceInOrder ==
  /\ \A j, k \in 1..Len(build_log) :
       build_log[j].node = build_log[k].node => j = k
  /\ \A k \in 1..Len(build_log) :
       LET n == build_log[k].node
       IN IF graph[n] = <<>>
          THEN build_log[k].inputs = <<DeclaredInput(n)>>
          ELSE /\ Len(build_log[k].inputs) = Len(graph[n])
               /\ \A i \in 1..Len(graph[n]) :
                    /\ LogIndex(build_log, graph[n][i]) \in 1..(k - 1)
                    /\ build_log[k].inputs[i] = Produced(build_log, graph[n][i])
  /\ err # "KeyError: dummy_outputs"
  /\ Built =>
       /\ {build_log[k].node : k \in 1..Len(build_log)} = DOMAIN graph
       /\ Range(initiated_nodes) = DOMAIN graph
       /\ Len(initiated_nodes) = Len(build_log)

\* C7 witness: the diamond is built, in the order A, B, C, D, and a forward
\* pass has run since.
C7_Witness ==
  /\ IsDiamond
  /\ pc = "returned"
  /\ [k \in 1..Len(build_log) |-> build_log[k].node] = <<"A", "B", "C", "D">>

(***************************************************************************)
(* Properties of the config validation.                                    *)
(***************************************************************************)
NotAcyclic == "ValueError: Model graph is not acyclic."

NoOutputs == "ValueError: No outputs specified."

\* A graph has a cycle iff some non-empty set of its nodes gives each of its
\* members a predecessor inside the set.
HasCycle(g) ==
  \E S \in SUBSET DOMAIN g :
    S # {} /\ \A n \in S : Range(g[n]) \cap S # {}

\* The nodes that no other node lists as a predecessor, in declaration order.
Sinks(nodes) ==
  SubSeqAt([i \in 1..Len(nodes) |-> EffName(nodes[i])],
           {i \in 1..Len(nodes) :
              \A j \in 1..Len(nodes) :
                j # i => EffName(nodes[i]) \notin Range(nodes[j].inputs)}, 1)

\* check_graph has raised.
CheckGraphFailed == pc = "raised" /\ err \in {NotAcyclic, NoOutputs}

\* The config has passed every validator.
Validated ==
  /\ pc \notin {"check_graph", "check_unique_names"}
  /\ ~(pc = "raised" /\ err \notin {"KeyError: computed", "KeyError: dummy_outputs"})

\* C8: check_graph raises for every graph with a cycle; for every non-empty
\* acyclic graph (of uniquely named nodes) it succeeds and leaves a
\* non-empty output list; it raises when the declared-or-derived output list
\* is empty while there are nodes.
C8_CheckGraphVerdict ==
  pc # "check_graph" =>
    LET g == GraphOf(cfg.nodes)
        declared_or_derived ==
          IF cfg.outputs # <<>> THEN cfg.outputs
          ELSE SubSeqAt([i \in 1..Len(cfg.nodes) |-> EffName(cfg.nodes[i])],
                        {i \in 1..Len(cfg.nodes) :
                           \A j \in 1..Len(cfg.nodes) :
                             EffName(cfg.nodes[i]) \notin Range(cfg.nodes[j].inputs)}, 1)
    IN /\ HasCycle(g) => (pc = "raised" /\ err = NotAcyclic)
       /\ (~HasCycle(g) /\ Len(cfg.nodes) > 0 /\ ~HasDuplicateName(cfg.nodes))
            => (~CheckGraphFailed /\ outputs # <<>>)
       /\ (~HasCycle(g) /\ Len(cfg.nodes) > 0 /\ declared_or_derived = <<>>)
            => (pc = "raised" /\ err = NoOutputs)
       /\ (~CheckGraphFailed /\ Len(cfg.nodes) > 0) => outputs # <<>>

\* C8 witness: a graph of two uniquely named nodes that list each other is
\* rejected as not acyclic.
C8_Witness ==
  /\ pc = "raised"
  /\ err = NotAcyclic
  /\ Len(cfg.nodes) = 2
  /\ ~HasDuplicateName(cfg.nodes)
  /\ cfg.nodes[1].inputs = <<EffName(cfg.nodes[2])>>
  /\ cfg.nodes[2].inputs = <<EffName(cfg.nodes[1])>>

\* C9: in a validated config, the outputs are the caller's list when it is
\* not empty, and otherwise the nodes (alias if set, else name) that no
\* other node lists as a predecessor, in declaration order.
C9_DerivedOutputs ==
  Validated =>
    IF cfg.outputs # <<>> THEN outputs = cfg.outputs
    ELSE outputs = Sinks(cfg.nodes)

\* C9 witness: no outputs were written, and the derived outputs are two
\* nodes, one of them known by its alias, of a validated config.
C9_Witness ==
  /\ Validated
  /\ cfg.outputs = <<>>
  /\ Len(outputs) = 2
  /\ \E i \in 1..Len(cfg.nodes) :
       /\ cfg.nodes[i].alias \notin {None, cfg.nodes[i].name}
       /\ cfg.nodes[i].alias \in Range(outputs)

(***************************************************************************)
(* Properties of the loss reducer.                                         *)
(***************************************************************************)
\* C10: a call of process_losses leaves the loss values of the mapping it
\* is given as they were, and a second call on the same mapping with the
\* same weights returns the total the first call returned.
C10_LossReducerIdempotent ==
  [][process_losses =>
       /\ losses_dict' = losses_dict
       /\ final_loss # <<>> => final_loss'[Len(final_loss')] = final_loss[Len(final_loss)]]_vars

\* The weighted sum of the scalars of the entries S of a losses mapping.
RECURSIVE WeightedSum(_, _, _)
WeightedSum(ld, weights, S) ==
  IF S = {} THEN 0
  ELSE LET e == CHOOSE y \in S : TRUE
       IN ld[e[1]][e[2]].scalar * weights[e[2]]
            + WeightedSum(ld, weights, S \ {e})

\* C11: process_losses returns as total the sum, over every (node, loss)
\* entry of the mapping it is given, of the loss's scalar times the weight
\* configured for that loss, starting from zero; the log mapping it returns
\* always holds the key "loss" with that total (zero for an empty mapping)
\* and, for every loss, the key loss/<node>/<loss> with its weighted value.
C11_WeightedTotalLogged ==
  [][process_losses =>
       LET total == WeightedSum(losses_dict, loss_weights,
                                LossEntries(losses_dict))
       IN /\ final_loss'[Len(final_loss')] = total
          /\ <<"loss">> \in DOMAIN step_output'
          /\ step_output'[<<"loss">>] = total
          /\ LossEntries(losses_dict) = {} => total = 0
          /\ \A e \in LossEntries(losses_dict) :
               /\ <<"loss", e[1], e[2]>> \in DOMAIN step_output'
               /\ step_output'[<<"loss", e[1], e[2]>>] =
                    losses_dict[e[1]][e[2]].scalar * loss_weights[e[2]]]_vars

\* A first call has returned 3 for two losses of scalar 1, weighted 2 and 1.
C11_Witness ==
  /\ pc = "process_losses"
  /\ Len(final_loss) = 1
  /\ final_loss[1] = 3
  /\ Cardinality(LossEntries(losses_dict)) = 2
  /\ \E e \in LossEntries(losses_dict) : loss_weights[e[2]] = 2
  /\ step_output[<<"loss">>] = 3

\* C12: of a substructured loss only the scalar enters the total, and the
\* value logged for each of its sublosses is the subloss scaled by the
\* weight of its loss.
C12_SublossesLoggedWeighted ==
  [][process_losses =>
       /\ final_loss'[Len(final_loss')] =
            WeightedSum(losses_dict, loss_weights, LossEntries(losses_dict))
       /\ \A e \in LossEntries(losses_dict) :
            \A sname \in DOMAIN losses_dict[e[1]][e[2]].sublosses :
              <<"loss", e[1], e[2], sname>> \in DOMAIN step_output' =>
                step_output'[<<"loss", e[1], e[2], sname>>] =
                  losses_dict[e[1]][e[2]].sublosses[sname]
                    * loss_weights[e[2]]]_vars

(***************************************************************************)
(* Properties of load_checkpoint.                                          *)
(***************************************************************************)
\* The number of warnings logged about a key.
WarnCount(w, key) == Cardinality({i \in 1..Len(w) : w[i].key = key})

\* load_checkpoint is called with a path whose artifact has a state dict.
Loading ==
  /\ load_checkpoint
  /\ model_weights # None
  /\ "state_dict" \in DOMAIN checkpoint

Saved == checkpoint["state_dict"]

\* C13: a load over key mismatches: each saved key the live model lacks is
\* warned about once and skipped; each live key the saved state lacks is
\* warned about once and keeps its value; each key of both takes the saved
\* value in place; the load does not raise.
C13_BestEffortOverKeyMismatches ==
  [][Loading =>
       /\ pc' # "raised"
       /\ DOMAIN state_dict' = DOMAIN state_dict
       /\ \A key \in DOMAIN Saved \ DOMAIN state_dict :
            WarnCount(warnings', key) = 1
       /\ \A key \in DOMAIN state_dict \ DOMAIN Saved :
            /\ WarnCount(warnings', key) = 1
            /\ state_dict'[key] = state_dict[key]
       /\ \A key \in DOMAIN state_dict \cap DOMAIN Saved :
            /\ state_dict'[key].value = Saved[key].value
            /\ state_dict'[key].shape = state_dict[key].shape]_vars

\* C13, amended: as above, but a key of both takes the saved value in place
\* only if the copy succeeds for it, and is not warned about; if the copy
\* fails it is warned about once and keeps its value.
C13_BestEffortUnlessCopyFails ==
  [][Loading =>
       /\ pc' # "raised"
       /\ DOMAIN state_dict' = DOMAIN state_dict
       /\ \A key \in DOMAIN Saved \ DOMAIN state_dict :
            /\ WarnCount(warnings', key) = 1
            /\ \E i \in 1..Len(warnings') :
                 warnings'[i] = Warning(NotInModel, key)
       /\ \A key \in DOMAIN state_dict \ DOMAIN Saved :
            /\ WarnCount(warnings', key) = 1
            /\ \E i \in 1..Len(warnings') :
                 warnings'[i] = Warning(NotInCheckpoint, key)
            /\ state_dict'[key] = state_dict[key]
       /\ \A key \in DOMAIN state_dict \cap DOMAIN Saved :
            IF Saved[key].shape \in {1, state_dict[key].shape}
            THEN /\ state_dict'[key].value = Saved[key].value
                 /\ state_dict'[key].shape = state_dict[key].shape
                 /\ WarnCount(warnings', key) = 0
            ELSE /\ state_dict'[key] = state_dict[key]
                 /\ WarnCount(warnings', key) = 1]_vars

\* A load has warned about a saved-only key and a live-only key and has
\* copied a third key.
C13_Witness ==
  /\ pc = "ready"
  /\ model_weights # None
  /\ "state_dict" \in DOMAIN checkpoint
  /\ warnings = <<Warning(NotInModel, "k1"), Warning(NotInCheckpoint, "k2")>>
  /\ "k3" \in DOMAIN state_dict
  /\ state_dict["k3"] = Param(2, 1)
  /\ Saved["k3"] = Param(1, 1)

\* C14: if the copy fails for a key, load_checkpoint warns about that key
\* and goes on: every other key of both the saved state and the live model,
\* before or after it, still takes its saved value, and nothing is raised.
C14_CopyFailureIsSkipped ==
  [][Loading =>
       \A bad \in DOMAIN state_dict \cap DOMAIN Saved :
         Saved[bad].shape \notin {1, state_dict[bad].shape} =>
           /\ pc' # "raised"
           /\ \E i \in 1..Len(warnings') :
                warnings'[i] = Warning(NotLoaded, bad)
           /\ \A key \in (DOMAIN state_dict \cap DOMAIN Saved) \ {bad} :
                Saved[key].shape \in {1, state_dict[key].shape} =>
                  state_dict'[key].value = Saved[key].value]_vars

\* The copy has failed for k2; k1 before it and k3 after it hold the saved
\* value.
C14_Witness ==
  /\ pc = "ready"
  /\ model_weights # None
  /\ "state_dict" \in DOMAIN checkpoint
  /\ warnings = <<Warning(NotLoaded, "k2")>>
  /\ DOMAIN state_dict = {"k1", "k2", "k3"}
  /\ Saved["k2"].shape = 2 /\ state_dict["k2"] = Param(1, 0)
  /\ Saved["k2"].value = 1
  /\ state_dict["k1"].value = 1 /\ Saved["k1"].value = 1
  /\ state_dict["k3"].value = 1 /\ Saved["k3"].value = 1

\* C15: load_checkpoint raises ValueError exactly when the artifact it loads
\* has no top-level "state_dict" key, and then no live parameter has
\* changed; with the path None it loads nothing and changes nothing.
C15_ValueErrorIffNoStateDict ==
  [][load_checkpoint =>
       /\ (pc' = "raised") <=>
            (model_weights # None /\ "state_dict" \notin DOMAIN checkpoint)
       /\ pc' = "raised" =>
            err' = NoStateDict /\ state_dict' = state_dict
       /\ model_weights = None =>
            /\ state_dict' = state_dict
            /\ warnings' = <<>>
            /\ pc' = "ready"]_vars

\* A load into a model with parameters has raised the ValueError.
C15_Witness ==
  /\ pc = "raised"
  /\ err = NoStateDict
  /\ model_weights # None
  /\ DOMAIN state_dict = {"k1", "k2", "k3"}

\* C16: loading a saved state of an identically structured model (the same
\* keys, each of the same shape) leaves every live parameter equal to the
\* saved value and logs no warning.
C16_CheckpointRoundTrip ==
  [][(/\ Loading
      /\ DOMAIN Saved = DOMAIN state_dict
      /\ \A key \in DOMAIN Saved : Saved[key].shape = state_dict[key].shape)
       => /\ state_dict' = Saved
          /\ warnings' = <<>>
          /\ pc' = "ready"]_vars

\* A state of three parameters has been loaded without a warning.
C16_Witness ==
  /\ pc = "ready"
  /\ model_weights # None
  /\ "state_dict" \in DOMAIN checkpoint
  /\ DOMAIN state_dict = {"k1", "k2", "k3"}
  /\ state_dict = Saved
  /\ \E key \in DOMAIN state_dict : state_dict[key].value = 1
  /\ warnings = <<>>

(***************************************************************************)
(* Properties of the attached modules.                                     *)
(***************************************************************************)
\* The metrics flagged is_main_metric, by their place in the config.
Flagged == {i \in 1..Len(attached.metrics) : attached.metrics[i].is_main_metric}

\* __init__ has attached the modules without an exception.
Attached == pc \in {"load_checkpoint", "ready"}

\* The exceptions that end the construction before it reaches the metrics.
EarlierErrors ==
  {NotAcyclic, NoOutputs, "KeyError: dummy_outputs", "KeyError: nodes",
   "ValueError: Duplicate name in nodes section.",
   "ValueError: Duplicate name in losses section.",
   "ValueError: Duplicate name in metrics section.",
   "ValueError: Duplicate name in visualizers section."}

\* C17: the construction of a model fails whenever more than one metric of
\* the whole model, on one node or on several, is flagged is_main_metric
\* (with the error of the main metrics, unless the config was rejected
\* before); with one metric flagged, main_metric is <its node>/<its name>;
\* with none, main_metric stays unset.
C17_MainMetric ==
  /\ Attached => Cardinality(Flagged) <= 1
  /\ (pc = "raised" /\ Cardinality(Flagged) > 1 /\ err \notin EarlierErrors)
       => err = MultipleMainMetrics
  /\ (pc = "raised" /\ Cardinality(Flagged) <= 1)
       => err # MultipleMainMetrics
  /\ Attached =>
       \A i \in Flagged :
         main_metric = <<attached.metrics[i].attached_to, "/",
                         IF attached.metrics[i].alias # None
                         THEN attached.metrics[i].alias
                         ELSE attached.metrics[i].name>>
  /\ (Attached /\ Flagged = {}) => main_metric = None

\* The construction has failed on two main metrics of different nodes.
C17_Witness ==
  /\ pc = "raised"
  /\ err = MultipleMainMetrics
  /\ Flagged = {1, 2}
  /\ attached.metrics[1].attached_to # attached.metrics[2].attached_to

\* The names of the modules a section of the config attaches to a node.
AttachedTo(module_cfgs, n) ==
  {EffName(module_cfgs[i]) :
     i \in {j \in 1..Len(module_cfgs) : module_cfgs[j].attached_to = n}}

\* The number of runs of a module of a kind on a Packet among those logged
\* after the first `from` ones.
RunCount(log, from, kind, n, m, outs) ==
  Cardinality({i \in (from + 1)..Len(log) :
                 log[i] = ModuleRun(kind, n, m, outs)})

\* C18: when forward visits a node, its attached modules run only if labels
\* are given: without labels no loss is computed, no metric is updated and
\* no visualizer runs; a visualizer runs only when the images and the
\* labels are both given; with labels and the compute flag of its kind,
\* every loss and every metric attached to the node is run exactly once,
\* on the node's output.
C18_AttachedModulesRun ==
  [][(forward_node /\ pc' # "raised") =>
       LET n == run_log'[Len(run_log')].node
           outs == NodeRun(n, run_log'[Len(run_log')].inputs)
           from == Len(module_log)
           new == {module_log'[i] : i \in (from + 1)..Len(module_log')}
       IN /\ SubSeq(module_log', 1, from) = module_log
          /\ ~call.labels =>
               /\ new = {}
               /\ losses' = losses
               /\ metric_state' = metric_state
               /\ visualizations' = visualizations
          /\ \A e \in new :
               /\ e.node = n /\ e.on = outs
               /\ e.kind = "visualizer" => call.images /\ call.labels
          /\ (call.labels /\ call.compute_loss) =>
               \A m \in AttachedTo(attached.losses, n) :
                 /\ RunCount(module_log', from, "loss", n, m, outs) = 1
                 /\ losses'[n][m] = ModuleRun("loss", n, m, outs)
          /\ (call.labels /\ call.compute_metrics) =>
               \A m \in AttachedTo(attached.metrics, n) :
                 /\ RunCount(module_log', from, "metric", n, m, outs) = 1
                 /\ \A set \in {"metrics", "train_metrics"} :
                      metric_state'[<<set, n, m>>] =
                        metric_state[<<set, n, m>>]
                          + (IF set = MetricSet(call.use_train_metrics)
                             THEN 1 ELSE 0)]_vars

\* A pass with labels, images and every flag has run a loss, two metrics
\* and a visualizer on the output of node B.
C18_Witness ==
  /\ pc = "returned"
  /\ call.labels /\ call.images
  /\ \E outs \in {NodeRun("B", run_log[i].inputs) : i \in 1..Len(run_log)} :
       /\ RunCount(module_log, 0, "loss", "B", "L1", outs) = 1
       /\ RunCount(module_log, 0, "metric", "B", "M1", outs) = 1
       /\ RunCount(module_log, 0, "metric", "B", "M2", outs) = 1
       /\ RunCount(module_log, 0, "visualizer", "B", "V1", outs) = 1

\* The computes logged for a node, in order.
ComputedAt(log, n) ==
  SelectSeq(log, LAMBDA e : e.op = "compute" /\ e.node = n)

\* The names a result gives values to, as the result of metric m.
NamesIn(m, r) ==
  IF r.shape = "tensor" THEN {m}
  ELSE IF r.shape = "pair" THEN {m} \cup DOMAIN r.submetrics
  ELSE DOMAIN r.submetrics

\* The value a result gives to one of those names: that of the submetric
\* of the name if there is one, else the bare value.
ValueIn(r, name) ==
  IF name \in DOMAIN r.submetrics THEN r.submetrics[name] ELSE r.value

\* C19: compute_metrics normalizes what each metric's compute() returns to
\* a flat name-to-value mapping per node: a bare value v of metric m gives
\* {m: v}; a pair (v, submetrics) gives {m: v} together with the
\* submetrics; a submetric mapping alone gives that mapping; any other
\* shape raises ValueError.  The mapping of a node holds the names its
\* metrics give, each with the value of the last metric that gives it.
C19_MetricResultsNormalized ==
  [][compute_metrics =>
       LET log == metric_log'
           bad == {i \in 1..Len(log) :
                     /\ log[i].op = "compute"
                     /\ log[i].result.shape \notin {"tensor", "pair", "dict"}}
           nodes == {log[i].node : i \in 1..Len(log)}
       IN /\ (pc' = "raised") <=> (bad # {})
          /\ pc' = "raised" => err' = UnexpectedValue
          /\ pc' # "raised" =>
               /\ DOMAIN metric_results' = nodes
               /\ \A n \in nodes :
                    LET cs == ComputedAt(log, n)
                        gives(i) == NamesIn(cs[i].metric, cs[i].result)
                    IN /\ DOMAIN metric_results'[n] =
                            UNION {gives(i) : i \in 1..Len(cs)}
                       /\ \A name \in DOMAIN metric_results'[n] :
                            \E i \in 1..Len(cs) :
                              /\ name \in gives(i)
                              /\ \A j \in (i + 1)..Len(cs) :
                                   name \notin gives(j)
                              /\ metric_results'[n][name] =
                                   ValueIn(cs[i].result, name)]_vars

\* Node A bears M1, which returned a pair, and M2, which returned a bare
\* value: its mapping holds both values and the submetric.
C19_Witness ==
  /\ pc = "metrics_computed"
  /\ "A" \in DOMAIN metric_results
  /\ metric_results["A"] = [k \in {"M1", "M2", "s"} |->
                              IF k = "s" THEN 2 ELSE 1]
  /\ \E i \in 1..Len(metric_log) :
       metric_log[i] = Computed("A", "M1",
                                MetricResult("pair", 1, [k \in {"s"} |-> 2]))

\* C20: the accumulator of a metric persists across the forward passes of
\* an epoch: a pass that visits its node with labels and metrics enabled
\* updates it once, and nothing else changes it until compute_metrics;
\* when compute_metrics returns normally, every metric of the computed set
\* has been computed and reset, each right after its own compute().
C20_AccumulatorsPersistUntilReset ==
  [][/\ (forward_node /\ pc' # "raised") =>
          LET n == run_log'[Len(run_log')].node
              enabled == call.labels /\ call.compute_metrics
          IN \A k \in DOMAIN metric_state :
               metric_state'[k] =
                 metric_state[k]
                   + (IF /\ enabled
                         /\ k[1] = MetricSet(call.use_train_metrics)
                         /\ k[2] = n
                      THEN 1 ELSE 0)
     /\ (pc \in {"ready", "forward", "returned"} /\ ~forward_node
           /\ ~compute_metrics)
          => metric_state' = metric_state
     /\ (compute_metrics /\ pc' = "metrics_computed") =>
          LET set == MetricSet(call'.use_train_metrics)
              keys == {k \in DOMAIN metric_state : k[1] = set}
          IN /\ Len(metric_log') = 2 * Cardinality(keys)
             /\ \A k \in keys :
                  /\ metric_state'[k] = 0
                  /\ \E i \in 1..(Len(metric_log') - 1) :
                       /\ metric_log'[i].op = "compute"
                       /\ metric_log'[i].node = k[2]
                       /\ metric_log'[i].metric = k[3]
                       /\ metric_log'[i + 1] = WasReset(k[2], k[3])
             /\ \A k \in DOMAIN metric_state \ keys :
                  metric_state'[k] = metric_state[k]]_vars

\* Two passes have updated the train metrics of node A twice; the other
\* set has just been computed and reset.
C20_Witness ==
  /\ pc = "metrics_computed"
  /\ ~call.use_train_metrics
  /\ Len(metric_log) = 4
  /\ <<"train_metrics", "A", "M1">> \in DOMAIN metric_state
  /\ metric_state[<<"train_metrics", "A", "M1">>] = MaxUpdates
  /\ metric_state[<<"metrics", "A", "M1">>] = 0

(***************************************************************************)
(* C21.  Validation rejects a config whenever two entries of one section   *)
(* (nodes, losses, metrics, visualizers) have the same effective name      *)
(* (alias if set, otherwise name), and for no other reason of naming: a    *)
(* name used once in each of two sections is accepted.                     *)
(***************************************************************************)
Sections ==
  <<cfg.nodes, attached.losses, attached.metrics, attached.visualizers>>

\* Fewer effective names than entries.
NameRepeated(objects) ==
  Cardinality({EffName(objects[i]) : i \in 1..Len(objects)}) < Len(objects)

NamesChecked == pc \notin {"check_graph", "check_unique_names"}

C21_DuplicateNamesRejected ==
  (NamesChecked /\ ~CheckGraphFailed)
    => (pc = "raised" <=> \E k \in 1..4 : NameRepeated(Sections[k]))

\* A config is accepted in which a losses entry and a metrics entry have the
\* same effective name, one of them through its alias, and a node has it too.
C21_AcceptedAcrossSections ==
  /\ pc = "init"
  /\ \E i \in 1..Len(cfg.nodes), j \in 1..Len(attached.losses),
        k \in 1..Len(attached.metrics) :
        /\ EffName(cfg.nodes[i]) = EffName(attached.losses[j])
        /\ EffName(attached.losses[j]) = EffName(attached.metrics[k])
        /\ attached.losses[j].name # attached.metrics[k].name
  /\ \E k \in 1..4 : Len(Sections[k]) = MaxModules

\* A config is rejected for two entries of one section that differ in name
\* and agree in effective name.
C21_Witness ==
  /\ pc = "raised"
  /\ \E i, j \in 1..Len(attached.visualizers) :
        /\ attached.visualizers[i].name # attached.visualizers[j].name
        /\ EffName(attached.visualizers[i]) = EffName(attached.visualizers[j])
  /\ ~NameRepeated(cfg.nodes)
  /\ ~NameRepeated(attached.losses)
  /\ ~NameRepeated(attached.metrics)

(***************************************************************************)
(* C22.  export_onnx enumerates the output tensors in ascending            *)
(* lexicographic order of (node name, output slot, index), one tensor per  *)
(* (node, slot, index) of the outputs, and returns as many names, the i-th *)
(* for the i-th tensor: the default <node>/<slot>/<index>, or the names of *)
(* the config when and only when there are as many of them as tensors.     *)
(***************************************************************************)
\* Every (node, slot, index) of the outputs.
OutputSlots(outs_by_node) ==
  UNION {UNION {{<<outs_by_node[n][1], outs_by_node[n][2][k][1], i>> :
                   i \in 0..(Len(outs_by_node[n][2][k][2]) - 1)} :
                k \in 1..Len(outs_by_node[n][2])} :
         n \in 1..Len(outs_by_node)}

Ascending(order) ==
  \A i, j \in 1..Len(order) :
    i < j =>
      LET a == <<StrIndex(order[i][1]), StrIndex(order[i][2]), order[i][3]>>
          b == <<StrIndex(order[j][1]), StrIndex(order[j][2]), order[j][3]>>
      IN \E k \in 1..3 : a[k] < b[k] /\ \A m \in 1..(k - 1) : a[m] = b[m]

C22_ExportEnumeration ==
  [][export_onnx =>
       LET all == OutputSlots(export_outputs)
           n == Cardinality(all)
       IN /\ Len(output_order') = n
          /\ Range(output_order') = all
          /\ Ascending(output_order')
          /\ Len(exported') = n
          /\ \A k \in 1..n :
               exported'[k] = OutTensor(output_order'[k][1],
                                        output_order'[k][2],
                                        output_order'[k][3])
          /\ Len(export_result') = n
          /\ IF output_names # NoNames /\ Len(output_names[1]) = n
             THEN export_result' = output_names[1]
             ELSE \A k \in 1..n :
                    export_result'[k] =
                      <<exported'[k].node, "/", exported'[k].slot, "/",
                        exported'[k].index>>]_vars

\* An export of two nodes run in descending order of name, slots inserted in
\* descending order, under the names of the config.
C22_Witness ==
  /\ pc = "exported"
  /\ Len(export_outputs) = 2
  /\ export_outputs[1][1] = "B"
  /\ Len(export_outputs[1][2]) = 2
  /\ export_outputs[1][2][1][1] = "features"
  /\ Len(output_order) > MaxTensors
  /\ export_result = GivenNames("out", Len(output_order))

\* An export whose config gives names, not as many as there are tensors.
C22_DefaultNamesUsed ==
  /\ pc = "exported"
  /\ Len(output_order) > 1
  /\ output_names = NoNames
  /\ kwargs = NoNames
  /\ export_result # <<>>
  /\ onnx_names = export_result
  /\ export_outputs[1][1] = "B"

(***************************************************************************)
(* C24.  The frozen-node schedule built at construction holds exactly one  *)
(* (node, unfreeze epoch) pair for each node whose freezing is active and  *)
(* none for any other node; the epoch is the number of epochs when         *)
(* unfreeze_after is unset, the given value when it is an integer and      *)
(* floor(fraction x epochs) when it is a fraction; ModuleFreezer is among  *)
(* the configured callbacks if and only if the schedule is not empty.      *)
(***************************************************************************)
ScheduleBuilt == pc \in {"initiate_nodes", "init_attached", "load_checkpoint",
                         "ready", "fit", "train_end"}

\* The places of a node in the schedule.
PairsOf(n) == {k \in 1..Len(frozen_nodes) : frozen_nodes[k][1] = n}

\* e is floor(num / den x ep).
IsFloor(e, num, den, ep) == e * den <= num * ep /\ num * ep < (e + 1) * den

UnfreezeEpochIs(e, u) ==
  \/ u.kind = "None" /\ e = epochs
  \/ u.kind = "int" /\ e = u.num
  \/ u.kind = "float" /\ IsFloor(e, u.num, u.den, epochs)

C24_FrozenNodeSchedule ==
  /\ ScheduleBuilt =>
       \A i \in 1..Len(cfg.nodes) :
         LET f == FreezingOf(freezing, i)
             at == PairsOf(EffName(cfg.nodes[i]))
         IN IF f.active
            THEN /\ Cardinality(at) = 1
                 /\ \A k \in at : UnfreezeEpochIs(frozen_nodes[k][2],
                                                  f.unfreeze_after)
            ELSE at = {}
  /\ pc \in {"fit", "train_end"} =>
       ((\E k \in 1..Len(callbacks) : callbacks[k].type = "ModuleFreezer")
          <=> frozen_nodes # <<>>)

\* A model of two nodes is built and its callbacks configured: one node is
\* frozen for a fraction of the epochs that is no whole number, the other
\* gives an unfreeze_after and is not frozen.
C24_Witness ==
  /\ pc = "fit"
  /\ Len(cfg.nodes) = 2
  /\ Len(frozen_nodes) = 1
  /\ \E i, j \in 1..2 :
       /\ FreezingOf(freezing, i).active
       /\ FreezingOf(freezing, i).unfreeze_after.kind = "float"
       /\ (FreezingOf(freezing, i).unfreeze_after.num * epochs)
            % FreezingOf(freezing, i).unfreeze_after.den # 0
       /\ frozen_nodes[1][2] > 0
       /\ ~FreezingOf(freezing, j).active
       /\ FreezingOf(freezing, j).unfreeze_after.kind = "int"

(***************************************************************************)
(* C25.  In the list configure_callbacks returns, the first                *)
(* ModelCheckpoint monitors val/loss (mode min), and a second one,         *)
(* monitoring val/metric/<main metric> (mode max), exists if and only if a *)
(* main metric is defined: checkpoint index 0 is the min-loss checkpoint   *)
(* and index 1, when a main metric is defined, the best-metric checkpoint. *)
(* Of the callbacks of the config, only the active ones are added.         *)
(***************************************************************************)
Configured == callbacks # <<>>

BuiltIn == {"ModelCheckpoint", "ModuleFreezer", "RichModelSummary"}

C25_CheckpointCallbacks ==
  Configured =>
    LET at == {k \in 1..Len(callbacks) : callbacks[k].type = "ModelCheckpoint"}
        first == CHOOSE k \in at : \A j \in at : k <= j
        added == SelectSeq(callbacks, LAMBDA c : c.type \notin BuiltIn)
        active == SelectSeq(trainer_callbacks, LAMBDA c : c.active)
    IN /\ at # {}
       /\ callbacks[first].monitor = <<"val/loss">>
       /\ callbacks[first].mode = "min"
       /\ Cardinality(at) = IF main_metric # None THEN 2 ELSE 1
       /\ \A k \in at \ {first} :
            /\ callbacks[k].monitor = <<"val/metric/", main_metric>>
            /\ callbacks[k].mode = "max"
       /\ Len(best_model_path) = Cardinality(at)
       /\ GetMinLossCheckpointPath(best_model_path)
            \in {"", callbacks[first].dirpath}
       /\ BestModelPath(best_model_path)
            = GetMinLossCheckpointPath(best_model_path)
       /\ main_metric # None =>
            \A k \in at \ {first} :
              GetBestMetricCheckpointPath(best_model_path)
                \in {"", callbacks[k].dirpath}
       /\ Len(added) = Len(active)
       /\ \A k \in 1..Len(added) : added[k].type = active[k].name

\* Training has ended for a model with a main metric and frozen nodes, whose
\* config lists an inactive callback before an active one; both
\* ModelCheckpoints hold a best path.
C25_Witness ==
  /\ pc = "train_end"
  /\ main_metric # None
  /\ frozen_nodes # <<>>
  /\ Len(trainer_callbacks) = 2
  /\ ~trainer_callbacks[1].active
  /\ trainer_callbacks[2].active
  /\ Len(best_model_path) = 2
  /\ best_model_path[1] # ""
  /\ best_model_path[2] # ""

(***************************************************************************)
(* C23.  ExportOnTrainEnd.on_train_end raises RuntimeError whenever no     *)
(* best model path is found, and then changes neither cfg.model.weights    *)
(* nor cfg.exporter.upload_url and starts no export; otherwise it sets     *)
(* cfg.model.weights to the best path of the first ModelCheckpoint before  *)
(* exporting, and overrides upload_url only when upload_to_mlflow is set   *)
(* and an MLFlow run is active.                                            *)
(***************************************************************************)
C23_ExportOnTrainEnd ==
  [][on_train_end =>
       LET best == best_model_path[1]
           me == callbacks[hooks_run + 1]
       IN IF best = ""
          THEN /\ pc' = "raised"
               /\ err' = NoBestModelPath
               /\ model_weights' = model_weights
               /\ upload_url' = upload_url
               /\ export_log' = export_log
          ELSE /\ pc' # "raised"
               /\ model_weights' = best
               /\ Len(export_log') = Len(export_log) + 1
               /\ export_log'[Len(export_log')].weights = best
               /\ export_log'[Len(export_log')].upload_url = upload_url'
               /\ upload_url' # upload_url
                    => me.upload_to_mlflow /\ is_mlflow
               /\ (me.upload_to_mlflow /\ is_mlflow)
                    => upload_url' = MlflowUrl]_vars

\* on_train_end has raised for want of a min-loss checkpoint, although the
\* best-metric ModelCheckpoint holds a path and the callback was to upload
\* to an active MLFlow run.
C23_Witness ==
  /\ pc = "raised"
  /\ err = NoBestModelPath
  /\ Len(best_model_path) = 2
  /\ best_model_path[2] # ""
  /\ callbacks[hooks_run].type = "ExportOnTrainEnd"
  /\ callbacks[hooks_run].upload_to_mlflow
  /\ is_mlflow
  /\ model_weights = None
  /\ upload_url = None
  /\ export_log = <<>>

\* Two exports were started, the first without an upload url, the second
\* with the url of the MLFlow run.
C23_Exported ==
  /\ pc = "train_end"
  /\ Len(export_log) = 2
  /\ export_log[1].upload_url = None
  /\ export_log[2].upload_url = MlflowUrl
  /\ model_weights = "min_val_loss"
  /\ Len(best_model_path) = 2

(***************************************************************************)
(* C27.  The train metrics and the validation/test metrics are disjoint    *)
(* instances: a forward pass with use_train_metrics updates only train     *)
(* metrics and leaves every validation/test accumulator unchanged, and     *)
(* conversely; compute_metrics computes and resets only the set it is      *)
(* called for and leaves the accumulators of the other set unchanged.      *)
(***************************************************************************)
OtherSet(use_train_metrics) ==
  IF use_train_metrics THEN "metrics" ELSE "train_metrics"

\* The accumulators of a set.
Accumulators(set) == {k \in DOMAIN metric_state : k[1] = set}

C27_MetricSetsDisjoint ==
  [][/\ forward_node =>
          /\ \A k \in Accumulators(OtherSet(call.use_train_metrics)) :
               metric_state'[k] = metric_state[k]
          /\ \A k \in DOMAIN metric_state :
               metric_state'[k] >= metric_state[k]
     /\ compute_metrics =>
          /\ \A k \in Accumulators(OtherSet(call'.use_train_metrics)) :
               metric_state'[k] = metric_state[k]
          /\ \A k \in DOMAIN metric_state :
               metric_state'[k] \in {0, metric_state[k]}
          /\ pc' = "metrics_computed" =>
               \A k \in DOMAIN metric_state \
                          Accumulators(OtherSet(call'.use_train_metrics)) :
                 metric_state'[k] = 0
     /\ init_attached =>
          \A n \in NodeNames(MaxCfgNodes), k \in 1..Len(ModuleNames) :
            <<"metrics", n, ModuleNames[k]>> \in DOMAIN metric_state'
              <=> <<"train_metrics", n, ModuleNames[k]>>
                    \in DOMAIN metric_state']_vars

\* The train metrics have just been computed and reset while a
\* validation/test metric of the same node and name still holds its updates.
C27_Witness ==
  /\ pc = "metrics_computed"
  /\ call.use_train_metrics
  /\ metric_log # <<>>
  /\ \E k \in Accumulators("metrics") :
       /\ metric_state[k] = MaxUpdates
       /\ metric_state[<<"train_metrics", k[2], k[3]>>] = 0

(***************************************************************************)
(* C26.  Across any sequence of training epochs, training_step updates the *)
(* train-metric accumulators only in epochs where train_metrics_interval   *)
(* is not -1 and (epoch + 1) is a multiple of it, and on_train_epoch_end   *)
(* computes and resets them in exactly those same epochs; hence at the     *)
(* start of every epoch all train-metric accumulators are empty, and the   *)
(* list of recorded training step outputs is empty after every             *)
(* on_train_epoch_end.                                                     *)
(***************************************************************************)
\* a is a multiple of b.
IsMultiple(a, b) == \E k \in (0 - a)..a : k * b = a

\* The current epoch is one of train metrics.
TrainMetricsEpoch ==
  /\ train_metrics_interval # -1
  /\ IsMultiple(current_epoch + 1, train_metrics_interval)

\* compute() and reset() of the train metric k are in the log.
ComputedAndReset(log, k) ==
  \E i \in 1..Len(log), j \in 1..Len(log) :
    /\ i < j
    /\ log[i].op = "compute" /\ log[i].node = k[2] /\ log[i].metric = k[3]
    /\ log[j] = WasReset(k[2], k[3])

C26_TrainMetricsEpochs ==
  /\ [][/\ \A k \in Accumulators("train_metrics") :
             metric_state'[k] > metric_state[k]
               => stage = "train" /\ TrainMetricsEpoch
        /\ (forward_node /\ stage = "train" /\ TrainMetricsEpoch
              /\ pc' = "forward")
             => \A k \in Accumulators("train_metrics") :
                  metric_state'[k] =
                    metric_state[k]
                      + (IF k[2] = run_log'[Len(run_log')].node
                         THEN 1 ELSE 0)
        /\ (on_train_epoch_end /\ pc' = "ready")
             => /\ \A k \in Accumulators("train_metrics") :
                     /\ ComputedAndReset(metric_log', k) <=> TrainMetricsEpoch
                     /\ metric_state'[k] = 0
                /\ ~TrainMetricsEpoch => metric_log' = <<>>
                /\ training_step_outputs' = <<>>]_vars
  /\ [](pc = "ready" /\ training_step_outputs = <<>>
          => \A k \in Accumulators("train_metrics") : metric_state[k] = 0)

\* The second training step of the second epoch has returned, at an
\* interval of 2: a train metric holds the updates of both steps.
C26_Witness ==
  /\ pc = "returned"
  /\ stage = "train"
  /\ train_metrics_interval = 2
  /\ current_epoch = 1
  /\ Len(training_step_outputs) = 1
  /\ \E k \in Accumulators("train_metrics") : metric_state[k] = 2

\* The second epoch has ended at an interval of 2 (or -2): the train
\* metrics were computed and reset, and the third epoch starts empty.
C26_EpochEnded ==
  /\ pc = "ready"
  /\ current_epoch = 2
  /\ train_metrics_interval \in {2, -2}
  /\ Accumulators("train_metrics") # {}
  /\ \A k \in Accumulators("train_metrics") :
       ComputedAndReset(metric_log, k) /\ metric_state[k] = 0
  /\ training_step_outputs = <<>>

(***************************************************************************)
(* C28.  Over any sequence of evaluation steps and evaluation epoch ends,  *)
(* the logged-image counter stays within 0..num_log_images, every image    *)
(* logged for a visualizer has an index below num_log_images, each         *)
(* visualizer logs at most num_log_images images per evaluation epoch, and *)
(* the counter is 0 again after each evaluation epoch end.                 *)
(***************************************************************************)
\* The images a visualizer has logged since the last evaluation epoch end.
ImagesOf(node_name, viz_name) ==
  {i \in 1..Len(image_log) :
     image_log[i].node = node_name /\ image_log[i].viz = viz_name}

C28_LoggedImages ==
  /\ [](/\ logged_images \in 0..num_log_images
        /\ \A i \in 1..Len(image_log) :
             image_log[i].index \in 0..(num_log_images - 1)
        /\ \A i \in 1..Len(image_log) :
             Cardinality(ImagesOf(image_log[i].node, image_log[i].viz))
               <= num_log_images)
  /\ [][(evaluation_epoch_end /\ pc' = "ready") => logged_images' = 0]_vars

\* Two visualizers have each logged num_log_images images in two steps,
\* the second step cut short by the limit.
C28_Witness ==
  /\ pc = "ready"
  /\ Len(validation_step_outputs) = 2
  /\ num_log_images = MaxLogImages
  /\ logged_images = num_log_images
  /\ Cardinality({image_log[i].viz : i \in 1..Len(image_log)}) = 2
  /\ \A i \in 1..Len(image_log) :
       Cardinality(ImagesOf(image_log[i].node, image_log[i].viz))
         = num_log_images

(***************************************************************************)
(* C29.  ExportConfig validation preserves scale_values and mean_values    *)
(* that are given as lists of numbers (the validated config holds the same *)
(* list), and leaves each of them None only when it was not given.         *)
(***************************************************************************)
C29_ValuesPreserved ==
  pc = "validated" =>
    /\ given_values.scale_values.kind = "list"
         => scale_values = given_values.scale_values
    /\ given_values.mean_values.kind = "list"
         => mean_values = given_values.mean_values
    /\ scale_values = NoValues => given_values.scale_values = NoValues
    /\ mean_values = NoValues => given_values.mean_values = NoValues

\* A validated config whose scale_values were given as a list of three
\* numbers.
C29_ListGiven ==
  /\ pc = "validated"
  /\ given_values.scale_values.kind = "list"
  /\ Len(given_values.scale_values.items) = 3

====
